---------------------------- MODULE Spec2Model ----------------------------
(***************************************************************************)
(* PicoUSBKeyBridge (src/src/main.c): CDC bytes are decoded on core0 into  *)
(* 16-bit key packets, buffered in key_queue, handed to core1 through the  *)
(* inter-core FIFO and emitted there as HID press/release reports, while   *)
(* core0 refreshes the hardware watchdog as long as core1's heartbeat is   *)
(* fresh.                                                                  *)
(***************************************************************************)
EXTENDS Naturals, Integers, Sequences, FiniteSets, TLC

(***************************************************************************)
(* Program constants.                                                      *)
(***************************************************************************)
PUSBKB_QUEUE_LEN == 64
WATCHDOG_TIMEOUT_US == 8000000
CORE1_HEALTH_TIMEOUT_US == 5000000
CDC_PARTIAL_TIMEOUT_US == 200000
CORE1_INIT_WAIT_US == 200000
\* sleep_ms(2) after each report of pio_send_key.
PIO_SEND_SLEEP_US == 2000
CDC_READ_BUF_LEN == 64
CFG_TUD_CDC_RX_BUFSIZE == 256
KEYEMU_LOG_BUFFER_SIZE == 8192
LOG_CHUNK_LEN == 64
CFG_TUD_CDC_TX_BUFSIZE == 256
OVERFLOW_MSG_SIZE == 64
\* "WARN: log buffer overflow (" and " bytes dropped)\r\n"
OVERFLOW_TEXT_LEN == 44

(***************************************************************************)
(* Bounds of the model.                                                    *)
(***************************************************************************)
\* Total number of bytes the host sends on the CDC port in one boot.
MaxBytes == 4
\* Depth of the inter-core FIFO (a property of the chip, not of this code).
FifoDepth == 1
\* The clock advances in short steps (200 ms) and long steps (5 s), counted
\* in clock units.
ShortStep == 3125
LongStep == 78125
\* At most MaxShort short steps between two long steps and MaxLong long steps.
MaxShort == 2
MaxLong == 3
\* Cap of the dropped_queue counter in the queue harness.
MaxDrops == 1

\* The byte values the host may send: 0 (no event) and two HID usages.
ByteVals == {0, 4, 5}

\* The clock counts units of 64 us, which divide every timeout of the program
\* and the period 2^32 us of time_us_32().
Units(us) == us \div 64
TIMER_WRAP_UNITS == 67108864
T32(x) == x % TIMER_WRAP_UNITS
U16(x) == x % 65536
U8(x) == x % 256
Min(a, b) == IF a < b THEN a ELSE b

VARIABLES
  pc0,                \* core0: position in main()
  pc1,                \* core1: position in core1_main()
  key_queue,          \* uint16_t key_queue[PUSBKB_QUEUE_LEN]
  key_queue_head,
  key_queue_tail,
  cdc_rx_state,       \* cdc_rx_state_t of main()
  drain_packed,       \* local `packed` of core0_drain_queue_to_fifo
  fifo,               \* the inter-core FIFO core0 -> core1
  core1_initialized,
  core1_last_seen_us,
  pio_ready,          \* pio_usb_device != NULL /\ pio_hid_ep != NULL
  key,                \* local hid_key_t of core1_main
  h_now,              \* local `now` of core1_is_healthy
  now,                \* the clock (absolute time, in units of 64 us)
  wd_enabled,         \* hardware watchdog armed
  wd_last_pet,        \* time of the last watchdog_update / watchdog_enable
  rebooted,           \* the watchdog has restarted the device
  connected,          \* tud_cdc_connected()
  rx,                 \* bytes waiting in the CDC RX buffer
  sent,               \* history: number of bytes the host has sent
  connect_at,         \* history: value of sent when the port was last opened
  consumed,           \* history: bytes read by core0_handle_cdc_input
  frames,             \* history: the frames the decoder completed
  emitted,            \* history: packets core1 popped from the FIFO
  reports,            \* history: HID reports handed to pio_usb_set_out_data
  pet_outcome,        \* history: what the last core0_pet_watchdog_if_healthy did
  discarded,          \* history: pending keycodes dropped by core0_update_cdc_state
  absq,               \* history: packets pushed and not yet popped, oldest first
  last_op,            \* history: the last key_queue operation and its result
  trace,              \* whether the unbounded histories are recorded
  hid_ep_loaded,      \* the HID endpoint holds a report the host has not taken
  log_buffer,         \* uint8_t log_buffer[KEYEMU_LOG_BUFFER_SIZE], cells written
  log_head,
  log_tail,
  log_dropped_bytes,
  log_initialized,
  flush_pc,           \* core0: position in keyemu_log_flush
  flush_dropped,      \* local `dropped` of keyemu_log_flush
  tx_avail,           \* tud_cdc_write_available()
  tx_out,             \* history: what tud_cdc_write was given, in order
  log_in,             \* history: number of bytes given to keyemu_log_write
  log_ops             \* history: number of log writes and sink drains so far

vars == <<pc0, pc1, key_queue, key_queue_head, key_queue_tail, cdc_rx_state,
          drain_packed, fifo, core1_initialized, core1_last_seen_us, pio_ready,
          key, h_now, now, wd_enabled, wd_last_pet, rebooted, connected, rx,
          sent, connect_at, consumed, frames, emitted, reports, pet_outcome, discarded,
          absq, last_op, trace, hid_ep_loaded, log_buffer, log_head, log_tail,
          log_dropped_bytes, log_initialized, flush_pc, flush_dropped,
          tx_avail, tx_out, log_in, log_ops>>

queueVars == <<key_queue, key_queue_head, key_queue_tail>>
core0Locals == <<cdc_rx_state, drain_packed, h_now>>
core1Vars == <<pc1, pio_ready, key>>
sharedVars == <<fifo, core1_initialized, core1_last_seen_us>>
wdVars == <<wd_enabled, wd_last_pet, rebooted, pet_outcome>>
timeVars == <<now>>
hostVars == <<connected, rx, sent, connect_at>>
decodeHist == <<consumed, frames, discarded>>
emitHist == <<emitted, reports>>
queueHist == <<absq, last_op>>
programVars == <<pc0, pc1, queueVars, core0Locals, sharedVars, pio_ready, key,
                 now, wdVars, hostVars, decodeHist, emitHist, queueHist, trace>>
logVars == <<log_buffer, log_head, log_tail, log_dropped_bytes,
             log_initialized, flush_pc, flush_dropped, tx_avail, tx_out,
             log_in, log_ops>>

(***************************************************************************)
(* key_queue: the ring buffer of core0.                                    *)
(***************************************************************************)
Queue == [buf : [0 .. PUSBKB_QUEUE_LEN - 1 -> Nat], head : Nat, tail : Nat]

TheQueue == [buf |-> key_queue, head |-> key_queue_head, tail |-> key_queue_tail]

key_queue_is_empty(q) == q.head = q.tail

\* A free-space count that does not reserve the slot telling full from empty.
key_queue_free_space_noreserve(q) ==
  IF q.head >= q.tail
    THEN PUSBKB_QUEUE_LEN - (q.head - q.tail)
    ELSE q.tail - q.head

key_queue_free_space(q) ==
  IF q.head >= q.tail
    THEN PUSBKB_QUEUE_LEN - (q.head - q.tail) - 1
    ELSE (q.tail - q.head) - 1

\* A push that, on a full queue, writes over the newest stored packet.
key_queue_push_overwrite(q, packed) ==
  IF key_queue_free_space(q) = 0
    THEN [ok |-> FALSE,
          q  |-> [q EXCEPT !.buf[(q.head + PUSBKB_QUEUE_LEN - 1)
                                   % PUSBKB_QUEUE_LEN] = packed]]
    ELSE [ok |-> TRUE,
          q  |-> [q EXCEPT !.buf[q.head] = packed,
                           !.head = U16((q.head + 1) % PUSBKB_QUEUE_LEN)]]

\* A push that advances head without wrapping it.
key_queue_push_nowrap(q, packed) ==
  IF key_queue_free_space(q) = 0
    THEN [ok |-> FALSE, q |-> q]
    ELSE [ok |-> TRUE,
          q  |-> [q EXCEPT !.buf[q.head] = packed, !.head = U16(q.head + 1)]]

\* Returns the result flag and the queue after the call.
key_queue_push(q, packed) ==
  IF key_queue_free_space(q) = 0
    THEN [ok |-> FALSE, q |-> q]
    ELSE [ok |-> TRUE,
          q  |-> [q EXCEPT !.buf[q.head] = packed,
                           !.head = U16((q.head + 1) % PUSBKB_QUEUE_LEN)]]

\* A pop that takes the newest packet instead of the oldest.
key_queue_pop_newest(q) ==
  IF key_queue_is_empty(q)
    THEN [ok |-> FALSE, out |-> 0, q |-> q]
    ELSE LET last == (q.head + PUSBKB_QUEUE_LEN - 1) % PUSBKB_QUEUE_LEN
         IN  [ok |-> TRUE, out |-> q.buf[last], q |-> [q EXCEPT !.head = last]]

\* Returns the result flag, *out and the queue after the call.
key_queue_pop(q) ==
  IF key_queue_is_empty(q)
    THEN [ok |-> FALSE, out |-> 0, q |-> q]
    ELSE [ok |-> TRUE, out |-> q.buf[q.tail],
          q  |-> [q EXCEPT !.tail = U16((q.tail + 1) % PUSBKB_QUEUE_LEN)]]

(***************************************************************************)
(* The frame decoder: the loop body of core0_handle_cdc_input.  A decoder  *)
(* context d holds the cdc_rx_state_t (st), the queue (q) and the          *)
(* histories: the abstract queue (aq), the last queue operation (lo) and   *)
(* the frames completed (fr); n is the number of bytes consumed before     *)
(* this one and n0 the number consumed before this call, so that a frame   *)
(* is split when its modifier is the first byte of a call.                 *)
(***************************************************************************)
\* A packing that keeps only the low byte.
PackKey_truncated(keycode, modifier) == U8(keycode + modifier * 256)

PackKey(keycode, modifier) == U16(keycode + modifier * 256)

UnpackKey(packed) ==
  [keycode |-> U8(packed % 256), modifier |-> U8((packed \div 256) % 256)]

QueueCount(q) == (q.head + PUSBKB_QUEUE_LEN - q.tail) % PUSBKB_QUEUE_LEN

\* A decoder that drops a packet on a full queue without counting it.
FeedByte_uncounted(d, b, n) ==
  IF ~d.st.have_keycode
    THEN [d EXCEPT !.st.pending_keycode = b, !.st.have_keycode = TRUE]
    ELSE
      LET modifier == b
          packed == PackKey(d.st.pending_keycode, modifier)
          called == d.st.pending_keycode # 0
          r == key_queue_push(d.q, packed)
          pushed == called /\ r.ok
          dropped == called /\ ~r.ok
          st1 == [d.st EXCEPT !.have_keycode = FALSE,
                              !.dropped_queue = @]
          q1 == IF called THEN r.q ELSE d.q
      IN  [st |-> st1,
           q  |-> q1,
           aq |-> IF pushed THEN Append(d.aq, packed) ELSE d.aq,
           lo |-> IF called
                    THEN [op |-> "push", ok |-> r.ok, val |-> packed,
                          virgin |-> d.lo.virgin]
                    ELSE d.lo,
           n0 |-> d.n0,
           fr |-> Append(d.fr,
                    [k |-> d.st.pending_keycode, m |-> modifier, at |-> n + 1,
                     res |-> IF pushed THEN "pushed"
                             ELSE IF dropped THEN "dropped" ELSE "noop",
                     d0 |-> d.st.dropped_queue, d1 |-> st1.dropped_queue,
                     q0 |-> QueueCount(d.q), q1 |-> QueueCount(q1),
                     have1 |-> st1.have_keycode, split |-> n = d.n0])]

\* A loop body that pushes the frame whatever its keycode.
FeedByte_pushzero(d, b, n) ==
  IF ~d.st.have_keycode
    THEN [d EXCEPT !.st.pending_keycode = b, !.st.have_keycode = TRUE]
    ELSE
      LET packed == PackKey(d.st.pending_keycode, b)
          r == key_queue_push(d.q, packed)
          st1 == [d.st EXCEPT !.have_keycode = FALSE,
                              !.dropped_queue = IF r.ok THEN @ ELSE @ + 1]
      IN  [st |-> st1,
           q  |-> r.q,
           aq |-> IF r.ok THEN Append(d.aq, packed) ELSE d.aq,
           lo |-> [op |-> "push", ok |-> r.ok, val |-> packed,
                   virgin |-> d.lo.virgin],
           n0 |-> d.n0,
           fr |-> Append(d.fr,
                    [k |-> d.st.pending_keycode, m |-> b, at |-> n + 1,
                     res |-> IF r.ok THEN "pushed" ELSE "dropped",
                     d0 |-> d.st.dropped_queue, d1 |-> st1.dropped_queue,
                     q0 |-> QueueCount(d.q), q1 |-> QueueCount(r.q),
                     have1 |-> st1.have_keycode, split |-> n = d.n0])]

FeedByte(d, b, n) ==
  IF ~d.st.have_keycode
    THEN [d EXCEPT !.st.pending_keycode = b, !.st.have_keycode = TRUE]
    ELSE
      LET modifier == b
          packed == PackKey(d.st.pending_keycode, modifier)
          called == d.st.pending_keycode # 0
          r == key_queue_push(d.q, packed)
          pushed == called /\ r.ok
          dropped == called /\ ~r.ok
          st1 == [d.st EXCEPT !.have_keycode = FALSE,
                              !.dropped_queue =
                                 IF dropped THEN @ + 1 ELSE @]
          q1 == IF called THEN r.q ELSE d.q
      IN  [st |-> st1,
           q  |-> q1,
           aq |-> IF pushed THEN Append(d.aq, packed) ELSE d.aq,
           lo |-> IF called
                    THEN [op |-> "push", ok |-> r.ok, val |-> packed,
                          virgin |-> d.lo.virgin]
                    ELSE d.lo,
           n0 |-> d.n0,
           fr |-> Append(d.fr,
                    [k |-> d.st.pending_keycode, m |-> modifier, at |-> n + 1,
                     res |-> IF pushed THEN "pushed"
                             ELSE IF dropped THEN "dropped" ELSE "noop",
                     d0 |-> d.st.dropped_queue, d1 |-> st1.dropped_queue,
                     q0 |-> QueueCount(d.q), q1 |-> QueueCount(q1),
                     have1 |-> st1.have_keycode, split |-> n = d.n0])]

\* for (i = 0; i < count; i++) { ... } over the bytes read.  fed is the
\* context after the first byte, bound as a value before the loop goes on.
RECURSIVE DecodeLoop(_, _, _)
DecodeLoop(d, bytes, n) ==
  IF bytes = <<>>
    THEN d
    ELSE CHOOSE r \in {DecodeLoop(fed, Tail(bytes), n + 1) :
                         fed \in {FeedByte(d, Head(bytes), n)}} : TRUE

TheContext ==
  [st |-> cdc_rx_state, q |-> TheQueue, aq |-> absq, lo |-> last_op,
   fr |-> frames, n0 |-> 0]

\* A core0_handle_cdc_input that forgets a pending keycode between calls.
core0_handle_cdc_input_restart(c, rxbuf, t, n) ==
  LET free_packets == key_queue_free_space(c.q)
      read_len == Min(CDC_READ_BUF_LEN, free_packets * 2)
      count == Min(read_len, Len(rxbuf))
      bytes == SubSeq(rxbuf, 1, count)
      st1 == [c.st EXCEPT !.last_rx_time = t, !.last_rx_time_valid = TRUE,
                          !.have_keycode = FALSE]
  IN  IF Len(rxbuf) = 0 \/ read_len = 0
        THEN [c |-> c, rx |-> rxbuf, bytes |-> <<>>]
        ELSE [c |-> DecodeLoop([c EXCEPT !.st = st1, !.n0 = n], bytes, n),
              rx |-> SubSeq(rxbuf, count + 1, Len(rxbuf)),
              bytes |-> bytes]

\* A core0_handle_cdc_input that reads a full buffer whatever the free space
\* of key_queue.
core0_handle_cdc_input_anyroom(c, rxbuf, t, n) ==
  LET count == Min(CDC_READ_BUF_LEN, Len(rxbuf))
      bytes == SubSeq(rxbuf, 1, count)
      st1 == [c.st EXCEPT !.last_rx_time = t, !.last_rx_time_valid = TRUE]
  IN  IF Len(rxbuf) = 0
        THEN [c |-> c, rx |-> rxbuf, bytes |-> <<>>]
        ELSE [c |-> DecodeLoop([c EXCEPT !.st = st1, !.n0 = n], bytes, n),
              rx |-> SubSeq(rxbuf, count + 1, Len(rxbuf)),
              bytes |-> bytes]

\* core0_handle_cdc_input on context c with rxbuf waiting in the CDC RX
\* buffer at time t, after n bytes were consumed: the context and the RX
\* buffer after the call, and the bytes read.
core0_handle_cdc_input(c, rxbuf, t, n) ==
  LET free_packets == key_queue_free_space(c.q)
      max_bytes == IF c.st.have_keycode THEN free_packets * 2 + 1
                                        ELSE free_packets * 2
      read_len == Min(CDC_READ_BUF_LEN, max_bytes)
      count == Min(read_len, Len(rxbuf))
      bytes == SubSeq(rxbuf, 1, count)
      st1 == [c.st EXCEPT !.last_rx_time = t, !.last_rx_time_valid = TRUE]
  IN  IF \/ (c.st.have_keycode /\ free_packets * 2 = 0)
         \/ Len(rxbuf) = 0
         \/ read_len = 0
        THEN [c |-> c, rx |-> rxbuf, bytes |-> <<>>]
        ELSE [c |-> DecodeLoop([c EXCEPT !.st = st1, !.n0 = n], bytes, n),
              rx |-> SubSeq(rxbuf, count + 1, Len(rxbuf)),
              bytes |-> bytes]

\* A core0_update_cdc_state whose partial-frame timeout is twice as long.
core0_update_cdc_state_400ms(st, conn, t) ==
  LET lost == st.was_connected /\ ~conn
      st1 == IF lost
               THEN [st EXCEPT !.have_keycode = FALSE, !.pending_keycode = 0,
                               !.last_rx_time_valid = FALSE]
               ELSE st
      st2 == [st1 EXCEPT !.was_connected = conn]
      stale == /\ st2.have_keycode
               /\ st2.last_rx_time_valid
               /\ t - st2.last_rx_time > 2 * Units(CDC_PARTIAL_TIMEOUT_US)
      st3 == IF stale
               THEN [st2 EXCEPT !.have_keycode = FALSE, !.pending_keycode = 0,
                                !.last_rx_time_valid = FALSE]
               ELSE st2
  IN  [st |-> st3,
       why |-> IF ~st.have_keycode THEN "none"
               ELSE IF lost THEN "disconnect"
               ELSE IF stale THEN "timeout" ELSE "none"]

\* A core0_update_cdc_state that keeps the pending keycode when the port
\* closes.
core0_update_cdc_state_keep(st, conn, t) ==
  LET lost == st.was_connected /\ ~conn
      st2 == [st EXCEPT !.was_connected = conn]
      stale == /\ st2.have_keycode
               /\ st2.last_rx_time_valid
               /\ t - st2.last_rx_time > Units(CDC_PARTIAL_TIMEOUT_US)
      st3 == IF stale
               THEN [st2 EXCEPT !.have_keycode = FALSE, !.pending_keycode = 0,
                                !.last_rx_time_valid = FALSE]
               ELSE st2
  IN  [st |-> st3,
       why |-> IF ~st.have_keycode THEN "none"
               ELSE IF lost THEN "disconnect"
               ELSE IF stale THEN "timeout" ELSE "none"]

\* A core0_update_cdc_state that discards at exactly the timeout.
core0_update_cdc_state_atlimit(st, conn, t) ==
  LET lost == st.was_connected /\ ~conn
      st1 == IF lost
               THEN [st EXCEPT !.have_keycode = FALSE, !.pending_keycode = 0,
                               !.last_rx_time_valid = FALSE]
               ELSE st
      st2 == [st1 EXCEPT !.was_connected = conn]
      stale == /\ st2.have_keycode
               /\ st2.last_rx_time_valid
               /\ t - st2.last_rx_time >= Units(CDC_PARTIAL_TIMEOUT_US)
      st3 == IF stale
               THEN [st2 EXCEPT !.have_keycode = FALSE, !.pending_keycode = 0,
                                !.last_rx_time_valid = FALSE]
               ELSE st2
  IN  [st |-> st3,
       why |-> IF ~st.have_keycode THEN "none"
               ELSE IF lost THEN "disconnect"
               ELSE IF stale THEN "timeout" ELSE "none"]

\* core0_update_cdc_state on st with the connection state conn at time t:
\* the state after the call and why a pending keycode was discarded.
core0_update_cdc_state(st, conn, t) ==
  LET lost == st.was_connected /\ ~conn
      st1 == IF lost
               THEN [st EXCEPT !.have_keycode = FALSE, !.pending_keycode = 0,
                               !.last_rx_time_valid = FALSE]
               ELSE st
      st2 == [st1 EXCEPT !.was_connected = conn]
      stale == /\ st2.have_keycode
               /\ st2.last_rx_time_valid
               /\ t - st2.last_rx_time > Units(CDC_PARTIAL_TIMEOUT_US)
      st3 == IF stale
               THEN [st2 EXCEPT !.have_keycode = FALSE, !.pending_keycode = 0,
                                !.last_rx_time_valid = FALSE]
               ELSE st2
  IN  [st |-> st3,
       why |-> IF ~st.have_keycode THEN "none"
               ELSE IF lost THEN "disconnect"
               ELSE IF stale THEN "timeout" ELSE "none"]

\* A health check that allows the heartbeat the watchdog period on top of
\* its own.
core1_is_healthy_lenient(t32, last_seen) ==
  LET elapsed == T32(t32 + TIMER_WRAP_UNITS - last_seen)
  IN  elapsed < Units(CORE1_HEALTH_TIMEOUT_US) + Units(WATCHDOG_TIMEOUT_US)

\* core1_is_healthy once core1_initialized was read as true: t32 is the
\* value time_us_32() returned and last_seen the heartbeat read after it.
\* A health check that compares the two timer values as signed numbers.
core1_is_healthy_signed(t32, last_seen) ==
  t32 - last_seen < Units(CORE1_HEALTH_TIMEOUT_US)

core1_is_healthy(t32, last_seen) ==
  LET elapsed == T32(t32 + TIMER_WRAP_UNITS - last_seen)
  IN  elapsed < Units(CORE1_HEALTH_TIMEOUT_US)

time_us_32 == T32(now)

(***************************************************************************)
(* The state at boot.                                                      *)
(***************************************************************************)
NoOp == [op |-> "none", ok |-> FALSE, val |-> 0, virgin |-> TRUE]

\* The statics of keyemu_log.c and an idle CDC TX side.
LogInit ==
  /\ log_buffer = <<>>
  /\ log_head = 0
  /\ log_tail = 0
  /\ log_dropped_bytes = 0
  /\ log_initialized = FALSE
  /\ flush_pc = "idle"
  /\ flush_dropped = 0
  /\ tx_avail = 0
  /\ tx_out = <<>>
  /\ log_in = 0
  /\ log_ops = 0

InitCommon ==
  /\ key_queue = [i \in 0 .. PUSBKB_QUEUE_LEN - 1 |-> 0]
  /\ key_queue_head = 0
  /\ key_queue_tail = 0
  /\ cdc_rx_state = [was_connected |-> FALSE, have_keycode |-> FALSE,
                     pending_keycode |-> 0, dropped_queue |-> 0,
                     last_rx_time |-> 0, last_rx_time_valid |-> FALSE]
  /\ drain_packed = 0
  /\ fifo = <<>>
  /\ key = [keycode |-> 0, modifier |-> 0]
  /\ h_now = 0
  /\ now = 0
  /\ wd_last_pet = 0
  /\ rebooted = FALSE
  /\ connected = FALSE
  /\ rx = <<>>
  /\ sent = 0
  /\ connect_at = 0
  /\ consumed = <<>>
  /\ frames = <<>>
  /\ emitted = <<>>
  /\ reports = <<>>
  /\ pet_outcome = "none"
  /\ discarded = {}
  /\ absq = <<>>
  /\ last_op = NoOp
  /\ hid_ep_loaded = FALSE
  /\ LogInit

Init ==
  /\ InitCommon
  /\ pc0 = "wait"
  /\ pc1 = "boot"
  /\ core1_initialized = FALSE
  /\ core1_last_seen_us = 0
  /\ pio_ready = FALSE
  /\ wd_enabled = FALSE
  /\ trace = TRUE

WdExpired == wd_enabled /\ now - wd_last_pet >= Units(WATCHDOG_TIMEOUT_US)

Running == ~rebooted /\ ~WdExpired

\* A main() that waits for the handshake of core1 however long it takes.
MainWaitCore1_forever ==
  /\ Running
  /\ pc0 = "wait"
  /\ core1_initialized
  /\ wd_enabled' = TRUE
  /\ wd_last_pet' = now
  /\ pc0' = "pet"
  /\ UNCHANGED <<logVars, hid_ep_loaded, pc1, queueVars, core0Locals, sharedVars, pio_ready, key, now,
                 rebooted, pet_outcome, hostVars, decodeHist, emitHist,
                 queueHist, trace>>

(***************************************************************************)
(* core0: main().                                                          *)
(***************************************************************************)
\* while (!core1_initialized) { if (waited > 200 ms) break; sleep_ms(5); }
\* followed by tud_init and watchdog_enable.
MainWaitCore1 ==
  /\ Running
  /\ pc0 = "wait"
  /\ core1_initialized \/ now - 0 > Units(CORE1_INIT_WAIT_US)
  /\ wd_enabled' = TRUE
  /\ wd_last_pet' = now
  /\ pc0' = "pet"
  /\ UNCHANGED <<logVars, hid_ep_loaded, pc1, queueVars, core0Locals, sharedVars, pio_ready, key, now,
                 rebooted, pet_outcome, hostVars, decodeHist, emitHist,
                 queueHist, trace>>

\* core0_pet_watchdog_if_healthy, up to `uint32_t now = time_us_32();`.
PetReadNow ==
  /\ Running
  /\ pc0 = "pet"
  /\ IF ~core1_initialized
       THEN /\ wd_last_pet' = now
            /\ pet_outcome' = "pet"
            /\ pc0' = "drain"
            /\ h_now' = h_now
       ELSE /\ h_now' = time_us_32
            /\ pc0' = "pet2"
            /\ UNCHANGED <<wd_last_pet, pet_outcome>>
  /\ UNCHANGED <<logVars, hid_ep_loaded, pc1, queueVars, cdc_rx_state, drain_packed, sharedVars,
                 pio_ready, key, now, wd_enabled, rebooted, hostVars,
                 decodeHist, emitHist, queueHist, trace>>

\* core0_pet_watchdog_if_healthy, from `last_seen = core1_last_seen_us` on,
\* and core0_service_native_usb_and_logs.
PetDecide ==
  /\ Running
  /\ pc0 = "pet2"
  /\ IF core1_is_healthy(h_now, core1_last_seen_us)
       THEN wd_last_pet' = now /\ pet_outcome' = "pet"
       ELSE wd_last_pet' = wd_last_pet /\ pet_outcome' = "skip"
  /\ h_now' = 0
  /\ pc0' = "drain"
  /\ UNCHANGED <<logVars, hid_ep_loaded, pc1, queueVars, cdc_rx_state, drain_packed, sharedVars,
                 pio_ready, key, now, wd_enabled, rebooted, hostVars,
                 decodeHist, emitHist, queueHist, trace>>

\* A drain step that pops without asking multicore_fifo_wready first.
DrainCheckPop_unchecked ==
  /\ Running
  /\ pc0 = "drain"
  /\ LET r == key_queue_pop(TheQueue)
     IN  /\ key_queue' = r.q.buf
         /\ key_queue_head' = r.q.head
         /\ key_queue_tail' = r.q.tail
         /\ drain_packed' = IF r.ok THEN r.out ELSE drain_packed
         /\ absq' = IF r.ok THEN Tail(absq) ELSE absq
         /\ last_op' = [op |-> "pop", ok |-> r.ok, val |-> r.out,
                        virgin |-> last_op.virgin /\ ~r.ok]
         /\ pc0' = IF r.ok THEN "push" ELSE "update"
  /\ UNCHANGED <<logVars, hid_ep_loaded, pc1, cdc_rx_state, h_now, sharedVars, pio_ready, key, now,
                 wdVars, hostVars, decodeHist, emitHist, trace>>

\* core0_drain_queue_to_fifo: while (multicore_fifo_wready()) { pop or break
\* A drain step whose readiness test passes when the FIFO is exactly full.
DrainCheckPop_fullok ==
  /\ Running
  /\ pc0 = "drain"
  /\ IF Len(fifo) <= FifoDepth
       THEN LET r == key_queue_pop(TheQueue)
            IN  /\ key_queue' = r.q.buf
                /\ key_queue_head' = r.q.head
                /\ key_queue_tail' = r.q.tail
                /\ drain_packed' = IF r.ok THEN r.out ELSE drain_packed
                /\ absq' = IF r.ok THEN Tail(absq) ELSE absq
                /\ last_op' = [op |-> "pop", ok |-> r.ok, val |-> r.out,
                               virgin |-> last_op.virgin /\ ~r.ok]
                /\ pc0' = IF r.ok THEN "push" ELSE "update"
       ELSE /\ pc0' = "update"
            /\ UNCHANGED <<queueVars, drain_packed, queueHist>>
  /\ UNCHANGED <<logVars, hid_ep_loaded, pc1, cdc_rx_state, h_now, sharedVars, pio_ready, key, now,
                 wdVars, hostVars, decodeHist, emitHist, trace>>

DrainCheckPop ==
  /\ Running
  /\ pc0 = "drain"
  /\ IF Len(fifo) < FifoDepth
       THEN LET r == key_queue_pop(TheQueue)
            IN  /\ key_queue' = r.q.buf
                /\ key_queue_head' = r.q.head
                /\ key_queue_tail' = r.q.tail
                /\ drain_packed' = IF r.ok THEN r.out ELSE drain_packed
                /\ absq' = IF r.ok THEN Tail(absq) ELSE absq
                /\ last_op' = [op |-> "pop", ok |-> r.ok, val |-> r.out,
                               virgin |-> last_op.virgin /\ ~r.ok]
                /\ pc0' = IF r.ok THEN "push" ELSE "update"
       ELSE /\ pc0' = "update"
            /\ UNCHANGED <<queueVars, drain_packed, queueHist>>
  /\ UNCHANGED <<logVars, hid_ep_loaded, pc1, cdc_rx_state, h_now, sharedVars, pio_ready, key, now,
                 wdVars, hostVars, decodeHist, emitHist, trace>>

\* core0_drain_queue_to_fifo: multicore_fifo_push_timeout_us(packed, 100000)
DrainPush ==
  /\ Running
  /\ pc0 = "push"
  /\ IF Len(fifo) < FifoDepth
       THEN fifo' = Append(fifo, drain_packed) /\ pc0' = "drain"
       ELSE fifo' = fifo /\ pc0' = "update"
  /\ drain_packed' = 0
  /\ UNCHANGED <<logVars, hid_ep_loaded, pc1, queueVars, cdc_rx_state, h_now, core1_initialized,
                 core1_last_seen_us, pio_ready, key, now, wdVars, hostVars,
                 decodeHist, emitHist, queueHist, trace>>

UpdateCdcState ==
  /\ Running
  /\ pc0 = "update"
  /\ LET r == core0_update_cdc_state(cdc_rx_state, connected, now)
     IN  /\ cdc_rx_state' = r.st
         /\ discarded' = IF r.why = "none" THEN discarded
                         ELSE discarded \cup
                                {[at |-> Len(consumed), why |-> r.why]}
  /\ pc0' = "handle"
  /\ UNCHANGED <<logVars, hid_ep_loaded, pc1, queueVars, drain_packed, h_now, sharedVars, pio_ready,
                 key, now, wdVars, hostVars, consumed, frames, emitHist,
                 queueHist, trace>>

HandleCdcInput ==
  /\ Running
  /\ pc0 = "handle"
  /\ LET r == core0_handle_cdc_input(TheContext, rx, now, Len(consumed))
     IN  /\ cdc_rx_state' = r.c.st
         /\ key_queue' = r.c.q.buf
         /\ key_queue_head' = r.c.q.head
         /\ key_queue_tail' = r.c.q.tail
         /\ absq' = r.c.aq
         /\ last_op' = r.c.lo
         /\ frames' = IF trace THEN r.c.fr ELSE frames
         /\ rx' = r.rx
         /\ consumed' = IF trace THEN consumed \o r.bytes ELSE consumed
  /\ pc0' = "pet"
  /\ UNCHANGED <<logVars, hid_ep_loaded, pc1, drain_packed, h_now, sharedVars, pio_ready, key, now,
                 wdVars, connected, connect_at, sent, discarded, emitHist, trace>>

(***************************************************************************)
(* core1: core1_main() and pio_send_key().                                 *)
(***************************************************************************)
KeyReport(k) ==
  [modifier |-> k.modifier, keycode |-> <<k.keycode, 0, 0, 0, 0, 0>>]

ReleaseReport == [modifier |-> 0, keycode |-> <<0, 0, 0, 0, 0, 0>>]

\* pio_usb_device_init and pio_usb_get_endpoint: either may return NULL, and
\* core1 then parks in `while (true) sleep_ms(100);`.
Core1Init ==
  /\ Running
  /\ pc1 = "boot"
  /\ \E ok \in BOOLEAN :
       /\ pio_ready' = ok
       /\ pc1' = IF ok THEN "hs1" ELSE "parked"
  /\ UNCHANGED <<logVars, hid_ep_loaded, pc0, queueVars, core0Locals, sharedVars, key, now, wdVars,
                 hostVars, decodeHist, emitHist, queueHist, trace>>

\* core1_initialized = true;
Core1Handshake1 ==
  /\ Running
  /\ pc1 = "hs1"
  /\ core1_initialized' = TRUE
  /\ pc1' = "hs2"
  /\ UNCHANGED <<logVars, hid_ep_loaded, pc0, queueVars, core0Locals, fifo, core1_last_seen_us,
                 pio_ready, key, now, wdVars, hostVars, decodeHist, emitHist,
                 queueHist, trace>>

\* core1_last_seen_us = time_us_32();   (after the handshake)
Core1Handshake2 ==
  /\ Running
  /\ pc1 = "hs2"
  /\ core1_last_seen_us' = time_us_32
  /\ pc1' = "loop"
  /\ UNCHANGED <<logVars, hid_ep_loaded, pc0, queueVars, core0Locals, fifo, core1_initialized,
                 pio_ready, key, now, wdVars, hostVars, decodeHist, emitHist,
                 queueHist, trace>>

\* Top of the service loop: the heartbeat and pio_usb_device_task().
Core1Heartbeat ==
  /\ Running
  /\ pc1 = "loop"
  /\ core1_last_seen_us' = time_us_32
  /\ pc1' = "poll"
  /\ UNCHANGED <<logVars, hid_ep_loaded, pc0, queueVars, core0Locals, fifo, core1_initialized,
                 pio_ready, key, now, wdVars, hostVars, decodeHist, emitHist,
                 queueHist, trace>>

\* A core1 that calls multicore_fifo_pop_blocking without asking
\* multicore_fifo_rvalid first: it waits in the pop until a word arrives.
Core1Poll_blocking ==
  /\ Running
  /\ pc1 = "poll"
  /\ fifo # <<>>
  /\ fifo' = Tail(fifo)
  /\ key' = UnpackKey(Head(fifo))
  /\ emitted' = IF trace THEN Append(emitted, Head(fifo)) ELSE emitted
  /\ pc1' = IF UnpackKey(Head(fifo)).keycode # 0 THEN "press" ELSE "poll"
  /\ UNCHANGED <<logVars, hid_ep_loaded, pc0, queueVars, core0Locals, core1_initialized,
                 core1_last_seen_us, pio_ready, now, wdVars, hostVars,
                 decodeHist, reports, queueHist, trace>>

\* while (multicore_fifo_rvalid()) { packed = multicore_fifo_pop_blocking();
\* key = unpack(packed); if (key.keycode != 0) pio_send_key(&key); }
Core1Poll ==
  /\ Running
  /\ pc1 = "poll"
  /\ IF fifo # <<>>
       THEN /\ fifo' = Tail(fifo)
            /\ key' = UnpackKey(Head(fifo))
            /\ emitted' = IF trace THEN Append(emitted, Head(fifo)) ELSE emitted
            /\ pc1' = IF UnpackKey(Head(fifo)).keycode # 0 THEN "press"
                                                           ELSE "poll"
       ELSE /\ pc1' = "loop"
            /\ UNCHANGED <<fifo, key, emitted>>
  /\ UNCHANGED <<logVars, hid_ep_loaded, pc0, queueVars, core0Locals, core1_initialized,
                 core1_last_seen_us, pio_ready, now, wdVars, hostVars,
                 decodeHist, reports, queueHist, trace>>

\* pio_send_key: the press report and sleep_ms(2).
Core1Press ==
  /\ Running
  /\ pc1 = "press"
  /\ IF ~pio_ready
       THEN pc1' = "poll" /\ reports' = reports /\ hid_ep_loaded' = hid_ep_loaded
       ELSE /\ hid_ep_loaded' = TRUE
            /\ reports' = IF trace
                            THEN Append(reports, [rep |-> KeyReport(key),
                                                  pkt |-> Len(emitted)])
                            ELSE reports
            /\ pc1' = "release"
  /\ UNCHANGED <<logVars, pc0, queueVars, core0Locals, sharedVars, pio_ready, key, now,
                 wdVars, hostVars, decodeHist, emitted, queueHist, trace>>

\* A pio_send_key that returns after the press report.
Core1Release_Missing ==
  /\ Running
  /\ pc1 = "release"
  /\ pc1' = "poll"
  /\ UNCHANGED <<logVars, hid_ep_loaded, pc0, queueVars, core0Locals, sharedVars, pio_ready, key, now,
                 wdVars, hostVars, decodeHist, emitHist, queueHist, trace>>

\* pio_send_key: the release report and sleep_ms(2).
Core1Release ==
  /\ Running
  /\ pc1 = "release"
  /\ hid_ep_loaded' = TRUE
  /\ reports' = IF trace
                  THEN Append(reports, [rep |-> ReleaseReport,
                                        pkt |-> Len(emitted)])
                  ELSE reports
  /\ pc1' = "poll"
  /\ UNCHANGED <<logVars, pc0, queueVars, core0Locals, sharedVars, pio_ready, key, now,
                 wdVars, hostVars, decodeHist, emitted, queueHist, trace>>

(***************************************************************************)
(* The environment: the CDC host, the clock and the hardware watchdog.     *)
(***************************************************************************)
HostWrite ==
  /\ Running
  /\ sent < MaxBytes
  /\ Len(rx) < CFG_TUD_CDC_RX_BUFSIZE
  /\ \E b \in ByteVals : rx' = Append(rx, b)
  /\ sent' = sent + 1
  /\ UNCHANGED <<logVars, hid_ep_loaded, pc0, pc1, queueVars, core0Locals, sharedVars, pio_ready, key,
                 now, wdVars, connected, connect_at, decodeHist, emitHist, queueHist,
                 trace>>

\* A host that types a fixed text: the key 4, then the key 5 with modifier 4.
FixedStream == <<4, 0, 5, 4>>

HostWriteFixed ==
  /\ Running
  /\ sent < Min(MaxBytes, Len(FixedStream))
  /\ Len(rx) < CFG_TUD_CDC_RX_BUFSIZE
  /\ rx' = Append(rx, FixedStream[sent + 1])
  /\ sent' = sent + 1
  /\ UNCHANGED <<logVars, hid_ep_loaded, pc0, pc1, queueVars, core0Locals, sharedVars, pio_ready, key,
                 now, wdVars, connected, connect_at, decodeHist, emitHist, queueHist,
                 trace>>

HostConnect ==
  /\ Running
  /\ ~connected
  /\ connected' = TRUE
  /\ connect_at' = sent
  /\ UNCHANGED <<logVars, hid_ep_loaded, pc0, pc1, queueVars, core0Locals, sharedVars, pio_ready, key,
                 now, wdVars, rx, sent, decodeHist, emitHist, queueHist, trace>>

HostDisconnect ==
  /\ Running
  /\ connected
  /\ connected' = FALSE
  /\ UNCHANGED <<logVars, hid_ep_loaded, pc0, pc1, queueVars, core0Locals, sharedVars, pio_ready, key,
                 now, wdVars, rx, sent, connect_at, decodeHist, emitHist, queueHist, trace>>

\* The clock advances by d units.
TickBy(d) ==
  /\ Running
  /\ now' = now + d
  /\ UNCHANGED <<logVars, hid_ep_loaded, pc0, pc1, queueVars, core0Locals, sharedVars, pio_ready, key,
                 wdVars, hostVars, decodeHist, emitHist, queueHist, trace>>

TickShort ==
  /\ (now % LongStep) \div ShortStep < MaxShort
  /\ TickBy(ShortStep)

TickLong ==
  /\ now \div LongStep < MaxLong
  /\ TickBy(LongStep)

\* The watchdog was not refreshed for WATCHDOG_TIMEOUT_MS: the device restarts.
WatchdogReset ==
  /\ ~rebooted
  /\ WdExpired
  /\ rebooted' = TRUE
  /\ UNCHANGED <<logVars, hid_ep_loaded, pc0, pc1, queueVars, core0Locals, sharedVars, pio_ready, key,
                 now, wd_enabled, wd_last_pet, pet_outcome, hostVars,
                 decodeHist, emitHist, queueHist, trace>>

Core0 ==
  \/ MainWaitCore1
  \/ PetReadNow
  \/ PetDecide
  \/ DrainCheckPop
  \/ DrainPush
  \/ UpdateCdcState
  \/ HandleCdcInput

Core1 ==
  \/ Core1Init
  \/ Core1Handshake1
  \/ Core1Handshake2
  \/ Core1Heartbeat
  \/ Core1Poll
  \/ Core1Press
  \/ Core1Release

Next ==
  \/ Core0
  \/ Core1
  \/ HostWrite
  \/ HostConnect
  \/ HostDisconnect
  \/ TickShort
  \/ TickLong
  \/ WatchdogReset

Spec == Init /\ [][Next]_vars

(***************************************************************************)
(* The program in an environment where no time passes: the data path.      *)
(***************************************************************************)
PipeNext ==
  \/ Core0
  \/ Core1
  \/ HostWrite

PipeSpec == Init /\ [][PipeNext]_vars

(***************************************************************************)
(* The data path with a clock that advances in short steps.                *)
(***************************************************************************)
TimedNext ==
  \/ Core0
  \/ Core1
  \/ HostWrite
  \/ TickShort

TimedSpec == Init /\ [][TimedNext]_vars

(***************************************************************************)
(* The data path under weak fairness of both cores, with the fixed host.   *)
(***************************************************************************)
FairNext ==
  \/ Core0
  \/ Core1
  \/ HostWriteFixed
  \/ TickShort

FairSpec ==
  /\ Init
  /\ [][FairNext]_vars
  /\ WF_vars(Core0)
  /\ WF_vars(Core1)

(***************************************************************************)
(* The liveness monitor: the clock advances in long steps and the hardware *)
(* watchdog restarts the device when it expires.                           *)
(***************************************************************************)
WatchdogNext ==
  \/ Core0
  \/ Core1
  \/ HostWriteFixed
  \/ TickLong
  \/ WatchdogReset

WatchdogSpec == Init /\ [][WatchdogNext]_vars

(***************************************************************************)
(* key_queue at its full capacity.  Both cores are in their service loops; *)
(* the input side of core0 (core0_update_cdc_state, core0_handle_cdc_input *)
(* and the CDC host) is replaced by a feeder that runs the decoder loop on *)
(* one frame at a time.  The frame fed is [4 + s, s], where s counts the   *)
(* packets stored so far modulo 3, so that neighbours in the queue differ. *)
(***************************************************************************)
QueueInit ==
  /\ InitCommon
  /\ pc0 = "drain"
  /\ pc1 = "loop"
  /\ core1_initialized = TRUE
  /\ core1_last_seen_us = 0
  /\ pio_ready = TRUE
  /\ wd_enabled = TRUE
  /\ trace = FALSE

QueueFeed ==
  /\ Running
  /\ pc0 = "update"
  /\ ~cdc_rx_state.have_keycode
  /\ key_queue_free_space(TheQueue) = 0 => cdc_rx_state.dropped_queue < MaxDrops
  /\ LET d == DecodeLoop(TheContext, <<4 + sent, sent>>, 0)
     IN  /\ cdc_rx_state' = d.st
         /\ key_queue' = d.q.buf
         /\ key_queue_head' = d.q.head
         /\ key_queue_tail' = d.q.tail
         /\ absq' = d.aq
         /\ last_op' = d.lo
         /\ sent' = IF d.lo.ok THEN (sent + 1) % 3 ELSE sent
  /\ \E next \in {"update", "drain"} : pc0' = next
  /\ UNCHANGED <<logVars, hid_ep_loaded, pc1, drain_packed, h_now, sharedVars, pio_ready, key, now,
                 wdVars, connected, connect_at, rx, decodeHist, emitHist, trace>>

QueueNext ==
  \/ QueueFeed
  \/ DrainCheckPop
  \/ DrainPush
  \/ Core1Heartbeat
  \/ Core1Poll
  \/ Core1Press
  \/ Core1Release

QueueSpec == QueueInit /\ [][QueueNext]_vars

(***************************************************************************)
(* What the histories hold.                                                *)
(***************************************************************************)
RECURSIVE IsSubSeq(_, _)
IsSubSeq(a, b) ==
  IF a = <<>> THEN TRUE
  ELSE IF b = <<>> THEN FALSE
  ELSE IF Head(a) = Head(b) THEN IsSubSeq(Tail(a), Tail(b))
  ELSE IsSubSeq(a, Tail(b))

IsKeyFrame(f) == f.k # 0
IsStored(f) == f.res = "pushed"

RECURSIVE PackedOf(_)
PackedOf(fs) ==
  IF fs = <<>> THEN <<>>
  ELSE <<PackKey(Head(fs).k, Head(fs).m)>> \o PackedOf(Tail(fs))

\* The packets the decoder completed, and those key_queue accepted, in order.
DecodedPackets == PackedOf(SelectSeq(frames, IsKeyFrame))
AcceptedPackets == PackedOf(SelectSeq(frames, IsStored))

(***************************************************************************)
(* C1: for every interleaving of core0 and core1 the packets core1 pops    *)
(* from the FIFO and emits form an order-preserving subsequence of the     *)
(* packets core0 decoded: none is emitted before an earlier decoded one,   *)
(* none is emitted twice.                                                  *)
(***************************************************************************)
C1_EmittedInDecodeOrder == IsSubSeq(emitted, DecodedPackets)

\* Two different packets were decoded, handed over and emitted.
C1_Witness ==
  /\ Len(emitted) >= 2
  /\ emitted[1] # emitted[2]
  /\ DecodedPackets = emitted

(***************************************************************************)
(* C2 (as amended): once core1 has completed its bring-up, every packet    *)
(* with a non-zero keycode that key_queue accepted is eventually followed  *)
(* by exactly one press report and then exactly one all-zero release       *)
(* report from pio_send_key, and no report of another packet comes between *)
(* the two.  reports[2i-1] and reports[2i] are the press and the release   *)
(* of the i-th accepted packet.                                            *)
(***************************************************************************)
MaxPackets == MaxBytes \div 2

IsPressOf(r, i, packed) ==
  /\ r.pkt = i
  /\ r.rep = KeyReport(UnpackKey(packed))
  /\ r.rep.keycode[1] # 0

IsReleaseOf(r, i) == r.pkt = i /\ r.rep = ReleaseReport

C2_PairsBalanced ==
  /\ Len(reports) <= 2 * Len(AcceptedPackets)
  /\ \A j \in 1 .. Len(reports) :
       IF j % 2 = 1
         THEN IsPressOf(reports[j], (j + 1) \div 2, AcceptedPackets[(j + 1) \div 2])
         ELSE IsReleaseOf(reports[j], j \div 2)

C3_ParkedCoreNotPetted ==
  [][(/\ pc1 = "parked"
      /\ pc0 = "pet"
      /\ pc0' # pc0
      /\ now > Units(CORE1_HEALTH_TIMEOUT_US))
       => (pet_outcome' = "skip" /\ wd_last_pet' = wd_last_pet)]_vars

(***************************************************************************)
(* C4: once core1_initialized is true, an execution of                     *)
(* core0_pet_watchdog_if_healthy that reads the clock more than 5 s after  *)
(* the last heartbeat does not call watchdog_update, and with              *)
(* core1_initialized true no execution refreshes the watchdog without      *)
(* that comparison.                                                        *)
(***************************************************************************)
HeartbeatStale ==
  /\ core1_initialized
  /\ h_now >= core1_last_seen_us
  /\ h_now - core1_last_seen_us > Units(CORE1_HEALTH_TIMEOUT_US)

C4_PetStep ==
  /\ (pc0 = "pet2" /\ pc0' = "drain" /\ HeartbeatStale)
       => (pet_outcome' = "skip" /\ wd_last_pet' = wd_last_pet)
  /\ (pc0 = "pet" /\ core1_initialized) => wd_last_pet' = wd_last_pet

C4_StaleHeartbeatNotPetted == [][C4_PetStep]_vars

\* core0 has just skipped the refresh with a heartbeat older than 5 s.
C4_Witness ==
  /\ pc0 = "drain"
  /\ pet_outcome = "skip"
  /\ core1_initialized
  /\ now - core1_last_seen_us > Units(CORE1_HEALTH_TIMEOUT_US)
  /\ wd_last_pet < now

(***************************************************************************)
(* Steps of the queue harness.                                             *)
(***************************************************************************)
Capacity == PUSBKB_QUEUE_LEN - 1

\* One frame goes through the decoder loop: a call of key_queue_push.
PushStep == pc0 = "update" /\ pc1' = pc1

\* core0_drain_queue_to_fifo found room in the FIFO: a call of key_queue_pop.
PopStep == pc0 = "drain" /\ pc1' = pc1 /\ Len(fifo) < FifoDepth

\* Any step of core1.
Core1Step == pc1' # pc1

(***************************************************************************)
(* C5: from the empty queue exactly 63 pushes in a row succeed, the 64th   *)
(* returns false and raises dropped_queue by exactly 1, after a pop one    *)
(* more push succeeds, and once every stored packet is popped the queue    *)
(* reports empty: a push succeeds exactly when fewer than 63 packets are   *)
(* stored, a failed push adds 1 to dropped_queue and a successful one      *)
(* nothing, a pop succeeds exactly when a packet is stored, and            *)
(* key_queue_is_empty holds exactly when none is.                          *)
(***************************************************************************)
C5_Push ==
  PushStep =>
    /\ last_op'.op = "push"
    /\ last_op'.ok <=> Len(absq) < Capacity
    /\ cdc_rx_state'.dropped_queue =
         cdc_rx_state.dropped_queue + (IF last_op'.ok THEN 0 ELSE 1)

C5_Pop ==
  PopStep =>
    /\ last_op'.op = "pop"
    /\ last_op'.ok <=> absq # <<>>

C5_EmptyReported == key_queue_is_empty(TheQueue) <=> absq = <<>>

C5_CapacityIs63 == []C5_EmptyReported /\ [][C5_Push /\ C5_Pop]_vars

\* 63 pushes succeeded, the 64th was dropped, one packet was popped and one
\* more push has just succeeded, which wrapped head to 0.
C5_Witness ==
  /\ cdc_rx_state.dropped_queue = 1
  /\ key_queue_tail = 1
  /\ key_queue_head = 0
  /\ Len(absq) = Capacity
  /\ last_op.op = "push"
  /\ last_op.ok

(***************************************************************************)
(* C6: key_queue is a FIFO sequence of at most 63 packets: the ring        *)
(* between tail and head holds the packets pushed with success and not     *)
(* yet popped, oldest first; a successful pop returns the oldest of them   *)
(* and removes it; a push that returns false leaves the stored packets,    *)
(* head and tail as they were.                                             *)
(***************************************************************************)
RingContents(q) ==
  [i \in 1 .. QueueCount(q) |-> q.buf[(q.tail + i - 1) % PUSBKB_QUEUE_LEN]]

C6_Refines == RingContents(TheQueue) = absq /\ Len(absq) <= Capacity

C6_PopOldest ==
  (PopStep /\ last_op'.ok) =>
    /\ last_op'.val = Head(absq)
    /\ drain_packed' = Head(absq)
    /\ RingContents(TheQueue') = Tail(absq)

C6_FailedPush ==
  (PushStep /\ ~last_op'.ok) =>
    /\ key_queue_head' = key_queue_head
    /\ key_queue_tail' = key_queue_tail
    /\ RingContents(TheQueue') = RingContents(TheQueue)

C6_QueueIsFifo == []C6_Refines /\ [][C6_PopOldest /\ C6_FailedPush]_vars

\* A pop has just returned a packet from a ring that wrapped, after a push
\* had failed on the full queue.
C6_Witness ==
  /\ last_op.op = "pop"
  /\ last_op.ok
  /\ cdc_rx_state.dropped_queue = 1
  /\ key_queue_head < key_queue_tail
  /\ Len(absq) >= 2

(***************************************************************************)
(* C7: in every reachable state head and tail are in 0..63, the number of  *)
(* packets held, (head - tail) mod 64, is in 0..63 and is the number of    *)
(* packets stored, and key_queue_free_space is 63 minus it; head changes   *)
(* only in a successful key_queue_push and tail only in a successful       *)
(* key_queue_pop, and no step of core1 changes the queue.                  *)
(***************************************************************************)
C7_Shape ==
  /\ key_queue_head \in 0 .. PUSBKB_QUEUE_LEN - 1
  /\ key_queue_tail \in 0 .. PUSBKB_QUEUE_LEN - 1
  /\ QueueCount(TheQueue) \in 0 .. Capacity
  /\ QueueCount(TheQueue) = Len(absq)
  /\ key_queue_free_space(TheQueue) = Capacity - QueueCount(TheQueue)

C7_Owners ==
  /\ key_queue_head' # key_queue_head
       => (PushStep /\ last_op'.op = "push" /\ last_op'.ok
           /\ key_queue_tail' = key_queue_tail)
  /\ key_queue_tail' # key_queue_tail
       => (PopStep /\ last_op'.op = "pop" /\ last_op'.ok
           /\ key_queue_head' = key_queue_head)
  /\ Core1Step => UNCHANGED queueVars

C7_QueueInvariants == []C7_Shape /\ [][C7_Owners]_vars

\* The queue is full with head wrapped behind tail, while core1 is in the
\* middle of a key.
C7_Witness ==
  /\ key_queue_head + 1 = key_queue_tail
  /\ key_queue_free_space(TheQueue) = 0
  /\ pc1 = "release"

(***************************************************************************)
(* C8: as long as no pending keycode was discarded (inter-byte timeout or  *)
(* disconnect) and no frame was dropped on a full queue, the packets       *)
(* core0_handle_cdc_input decoded from the bytes it read in successive     *)
(* calls, however they were split, are the packets one call decodes from   *)
(* the same bytes in one block, and the keycode left pending is the same.  *)
(***************************************************************************)
InitialContext ==
  [st |-> [was_connected |-> FALSE, have_keycode |-> FALSE,
           pending_keycode |-> 0, dropped_queue |-> 0,
           last_rx_time |-> 0, last_rx_time_valid |-> FALSE],
   q  |-> [buf |-> [i \in 0 .. PUSBKB_QUEUE_LEN - 1 |-> 0],
           head |-> 0, tail |-> 0],
   aq |-> <<>>, lo |-> NoOp, fr |-> <<>>, n0 |-> 0]

OneBlock == DecodeLoop(InitialContext, consumed, 0)

Disturbed ==
  \/ discarded # {}
  \/ \E i \in 1 .. Len(frames) : frames[i].res = "dropped"

C8_SplitIndependent ==
  ~Disturbed =>
    /\ DecodedPackets = PackedOf(SelectSeq(OneBlock.fr, IsKeyFrame))
    /\ cdc_rx_state.have_keycode = OneBlock.st.have_keycode
    /\ cdc_rx_state.have_keycode
         => cdc_rx_state.pending_keycode = OneBlock.st.pending_keycode

\* Two packets were decoded, one of them from a frame whose keycode and
\* modifier came in different reads.
C8_Witness ==
  /\ ~Disturbed
  /\ Len(DecodedPackets) = 2
  /\ \E i \in 1 .. Len(frames) : frames[i].split /\ frames[i].k # 0

(***************************************************************************)
(* C9: if only the keycode of a frame was accepted and no byte was read    *)
(* for more than 200 ms, measured when core0_update_cdc_state runs, that   *)
(* call discards the pending keycode before any later byte is consumed; no *)
(* packet is made of the discarded byte, and the next two bytes consumed,  *)
(* if no discard comes between them, are decoded as exactly that keycode   *)
(* and that modifier.                                                      *)
(***************************************************************************)
PendingFor ==
  IF cdc_rx_state.have_keycode /\ cdc_rx_state.last_rx_time_valid
    THEN now - cdc_rx_state.last_rx_time
    ELSE 0

C9_DiscardStep ==
  (/\ pc0 = "update"
   /\ pc0' = "handle"
   /\ PendingFor > Units(CDC_PARTIAL_TIMEOUT_US))
    => /\ ~cdc_rx_state'.have_keycode
       /\ cdc_rx_state'.pending_keycode = 0
       /\ [at |-> Len(consumed), why |-> "timeout"] \in discarded'
       /\ UNCHANGED <<queueVars, fifo, rx, consumed, frames>>

C9_Recovered ==
  \A x \in discarded :
    x.why = "timeout" =>
      /\ \A i \in 1 .. Len(frames) : frames[i].at # x.at + 1
      /\ (/\ Len(consumed) >= x.at + 2
          /\ \A y \in discarded : y.at # x.at + 1)
           => \E i \in 1 .. Len(frames) :
                /\ frames[i].at = x.at + 2
                /\ frames[i].k = consumed[x.at + 1]
                /\ frames[i].m = consumed[x.at + 2]

C10_ZeroKeycodeIsNoOp ==
  /\ \A i \in 1 .. Len(frames) :
       frames[i].k = 0 =>
         /\ frames[i].res = "noop"
         /\ frames[i].q1 = frames[i].q0
         /\ frames[i].d1 = frames[i].d0
         /\ ~frames[i].have1
  /\ \A i \in 1 .. Len(absq) : UnpackKey(absq[i]).keycode # 0
  /\ \A i \in 1 .. Len(fifo) : UnpackKey(fifo[i]).keycode # 0
  /\ \A i \in 1 .. Len(emitted) : UnpackKey(emitted[i]).keycode # 0
  /\ \A i \in 1 .. Len(reports) :
       reports[i].rep = ReleaseReport \/ reports[i].rep.keycode[1] # 0
  /\ Len(reports) <= 2 * Len(SelectSeq(frames, IsKeyFrame))

\* A frame with keycode 0 and a modifier was consumed, and the key frame
\* after it was reported.
C10_Witness ==
  /\ Len(frames) = 2
  /\ frames[1].k = 0
  /\ frames[1].m # 0
  /\ frames[2].k # 0
  /\ Len(reports) = 2

(***************************************************************************)
(* One frame at the edges of the byte range: both cores are in their       *)
(* service loops and the frame [k, m] waits in the CDC RX buffer.          *)
(***************************************************************************)
EdgeBytes == {1, 4, 128, 255}

KeyInit ==
  /\ key_queue = [i \in 0 .. PUSBKB_QUEUE_LEN - 1 |-> 0]
  /\ key_queue_head = 0
  /\ key_queue_tail = 0
  /\ cdc_rx_state = [was_connected |-> FALSE, have_keycode |-> FALSE,
                     pending_keycode |-> 0, dropped_queue |-> 0,
                     last_rx_time |-> 0, last_rx_time_valid |-> FALSE]
  /\ drain_packed = 0
  /\ fifo = <<>>
  /\ key = [keycode |-> 0, modifier |-> 0]
  /\ h_now = 0
  /\ now = 0
  /\ wd_last_pet = 0
  /\ rebooted = FALSE
  /\ connected = FALSE
  /\ \E k \in EdgeBytes : \E m \in EdgeBytes \cup {0} : rx = <<k, m>>
  /\ sent = 2
  /\ connect_at = 0
  /\ consumed = <<>>
  /\ frames = <<>>
  /\ emitted = <<>>
  /\ reports = <<>>
  /\ pet_outcome = "none"
  /\ discarded = {}
  /\ absq = <<>>
  /\ last_op = NoOp
  /\ hid_ep_loaded = FALSE
  /\ LogInit
  /\ pc0 = "pet"
  /\ pc1 = "loop"
  /\ core1_initialized = TRUE
  /\ core1_last_seen_us = 0
  /\ pio_ready = TRUE
  /\ wd_enabled = TRUE
  /\ trace = TRUE

KeyNext ==
  \/ PetReadNow
  \/ PetDecide
  \/ DrainCheckPop
  \/ DrainPush
  \/ UpdateCdcState
  \/ HandleCdcInput
  \/ Core1Heartbeat
  \/ Core1Poll
  \/ Core1Press
  \/ Core1Release

KeySpec == KeyInit /\ [][KeyNext]_vars

(***************************************************************************)
(* C11: for every frame [k, m] with k # 0 that key_queue accepted, the     *)
(* packet core1 unpacks is exactly (k, m), the press report has modifier   *)
(* m, keycode slot 0 = k and the other five slots 0, and the release       *)
(* report is all zero.                                                     *)
(***************************************************************************)
StoredFrames == SelectSeq(frames, IsStored)

C11_ReportCarriesFrame ==
  /\ Len(emitted) <= Len(StoredFrames)
  /\ \A i \in 1 .. Len(emitted) :
       UnpackKey(emitted[i]) =
         [keycode |-> StoredFrames[i].k, modifier |-> StoredFrames[i].m]
  /\ Len(reports) <= 2 * Len(emitted)
  /\ \A j \in 1 .. Len(reports) :
       IF j % 2 = 1
         THEN /\ reports[j].rep.modifier = StoredFrames[(j + 1) \div 2].m
              /\ reports[j].rep.keycode =
                   <<StoredFrames[(j + 1) \div 2].k, 0, 0, 0, 0, 0>>
         ELSE /\ reports[j].rep.modifier = 0
              /\ reports[j].rep.keycode = <<0, 0, 0, 0, 0, 0>>

\* The frame [255, 128] was reported and released.
C11_Witness ==
  /\ Len(frames) = 1
  /\ frames[1].k = 255
  /\ frames[1].m = 128
  /\ Len(reports) = 2

(***************************************************************************)
(* The HID endpoint of the PIO USB device.  The host polls it at the       *)
(* interval the descriptor asks for (10 ms) and takes the report it holds. *)
(***************************************************************************)
HostPollHid ==
  /\ Running
  /\ hid_ep_loaded
  /\ hid_ep_loaded' = FALSE
  /\ UNCHANGED <<programVars, logVars>>

HidNext ==
  \/ KeyNext
  \/ HostPollHid

HidSpec == KeyInit /\ [][HidNext]_vars

(***************************************************************************)
(* C12: pio_send_key writes a report to the HID endpoint only when the     *)
(* endpoint is ready, that is when the host has taken the report written   *)
(* before, so that a press is never overwritten by its release.            *)
(***************************************************************************)
C12_WritesOnlyWhenReady == [][reports' # reports => ~hid_ep_loaded]_vars

(***************************************************************************)
(* C13: when the inter-core FIFO is not write-ready,                       *)
(* core0_drain_queue_to_fifo pops nothing: key_queue, its head and its     *)
(* tail are unchanged by that drain step, the packet at the tail stays     *)
(* there until it is popped, and the packet popped is the one put in the   *)
(* FIFO, so the retained packet is the first one sent later.               *)
(***************************************************************************)
BlockedDrainStep == pc0 = "drain" /\ pc0' # pc0 /\ Len(fifo) >= FifoDepth

C13_Retained ==
  BlockedDrainStep =>
    /\ key_queue' = key_queue
    /\ key_queue_head' = key_queue_head
    /\ key_queue_tail' = key_queue_tail
    /\ drain_packed' = drain_packed
    /\ fifo' = fifo
    /\ pc0' = "update"

C13_HeadKept ==
  (~key_queue_is_empty(TheQueue) /\ key_queue_tail' = key_queue_tail) =>
    /\ ~key_queue_is_empty(TheQueue')
    /\ key_queue'[key_queue_tail] = key_queue[key_queue_tail]

C13_HeadSentFirst ==
  /\ key_queue_tail' # key_queue_tail =>
       /\ Len(fifo) < FifoDepth
       /\ drain_packed' = key_queue[key_queue_tail]
       /\ pc0' = "push"
  /\ Len(fifo') > Len(fifo) => fifo' = Append(fifo, drain_packed)

C13_BlockedDrainRetains ==
  [][C13_Retained /\ C13_HeadKept /\ C13_HeadSentFirst]_vars

\* core0 has left the drain loop with a packet still queued because the FIFO
\* was full of the packet popped before it.
C13_Witness ==
  /\ pc0 = "update"
  /\ ~key_queue_is_empty(TheQueue)
  /\ Len(fifo) = FifoDepth
  /\ key_queue_tail = 1

(***************************************************************************)
(* core0 and core1 in their loops with 62 packets queued behind one in the *)
(* FIFO, as after two full reads that core1 has not caught up with, and a  *)
(* host that goes on typing.                                               *)
(***************************************************************************)
QueuedAtStart == 62

DropInit ==
  /\ key_queue = [i \in 0 .. PUSBKB_QUEUE_LEN - 1 |->
                    IF i < QueuedAtStart THEN PackKey(4, 0) ELSE 0]
  /\ key_queue_head = QueuedAtStart
  /\ key_queue_tail = 0
  /\ cdc_rx_state = [was_connected |-> TRUE, have_keycode |-> FALSE,
                     pending_keycode |-> 0, dropped_queue |-> 0,
                     last_rx_time |-> 0, last_rx_time_valid |-> TRUE]
  /\ drain_packed = 0
  /\ fifo = <<PackKey(4, 0)>>
  /\ key = [keycode |-> 0, modifier |-> 0]
  /\ h_now = 0
  /\ now = 0
  /\ wd_last_pet = 0
  /\ rebooted = FALSE
  /\ connected = TRUE
  /\ rx = <<>>
  /\ sent = 0
  /\ connect_at = 0
  /\ consumed = <<>>
  /\ frames = <<>>
  /\ emitted = <<>>
  /\ reports = <<>>
  /\ pet_outcome = "none"
  /\ discarded = {}
  /\ absq = [i \in 1 .. QueuedAtStart |-> PackKey(4, 0)]
  /\ last_op = [op |-> "push", ok |-> TRUE, val |-> PackKey(4, 0),
                virgin |-> FALSE]
  /\ hid_ep_loaded = FALSE
  /\ LogInit
  /\ pc0 = "pet"
  /\ pc1 = "loop"
  /\ core1_initialized = TRUE
  /\ core1_last_seen_us = 0
  /\ pio_ready = TRUE
  /\ wd_enabled = TRUE
  /\ trace = FALSE

DropNext ==
  \/ PetReadNow
  \/ PetDecide
  \/ DrainCheckPop
  \/ DrainPush
  \/ UpdateCdcState
  \/ HandleCdcInput
  \/ Core1Heartbeat
  \/ Core1Poll
  \/ Core1Press
  \/ Core1Release
  \/ HostWriteFixed

DropSpec == DropInit /\ [][DropNext]_vars

(***************************************************************************)
(* C14: every packet lost to backpressure is counted.  Each step keeps the *)
(* balance: the packets with a non-zero keycode it decodes are those it    *)
(* adds to key_queue, to the packet core0 holds between pop and push and   *)
(* to the FIFO, plus those it hands to core1, plus the increase of         *)
(* dropped_queue; and the push into the FIFO never finds it full.          *)
(***************************************************************************)
PacketsIn(have, pending, bytes) ==
  LET stream == IF have THEN <<pending>> \o bytes ELSE bytes
  IN  Cardinality({i \in 1 .. Len(stream) \div 2 : stream[2 * i - 1] # 0})

C14_Decoded ==
  IF pc0 = "handle" /\ pc0' = "pet"
    THEN PacketsIn(cdc_rx_state.have_keycode, cdc_rx_state.pending_keycode,
                   SubSeq(rx, 1, Len(rx) - Len(rx')))
    ELSE 0

InPipeline ==
  QueueCount(TheQueue) + (IF pc0 = "push" THEN 1 ELSE 0) + Len(fifo)

C14_Delivered == IF Len(fifo') < Len(fifo) THEN Len(fifo) - Len(fifo') ELSE 0

C14_Balance ==
  C14_Decoded = (InPipeline' - InPipeline) + C14_Delivered
                + (cdc_rx_state'.dropped_queue - cdc_rx_state.dropped_queue)

C14_PushFindsRoom == pc0 = "push" => Len(fifo) < FifoDepth

C14_DropsCounted == []C14_PushFindsRoom /\ [][C14_Balance]_vars

\* One packet was dropped on the full queue and counted, and core0 has since
\* moved a packet on to the FIFO.
C14_Witness ==
  /\ cdc_rx_state.dropped_queue = 1
  /\ key_queue_tail >= 2

(***************************************************************************)
(* Both cores in their loops and a host that never stops typing: it writes *)
(* the next frame when the last was read and few packets are queued.       *)
(* Each core is scheduled fairly, at any speed relative to the other.      *)
(***************************************************************************)
MaxQueued == 2

LoopInit ==
  /\ key_queue = [i \in 0 .. PUSBKB_QUEUE_LEN - 1 |-> 0]
  /\ key_queue_head = 0
  /\ key_queue_tail = 0
  /\ cdc_rx_state = [was_connected |-> TRUE, have_keycode |-> FALSE,
                     pending_keycode |-> 0, dropped_queue |-> 0,
                     last_rx_time |-> 0, last_rx_time_valid |-> FALSE]
  /\ drain_packed = 0
  /\ fifo = <<>>
  /\ key = [keycode |-> 0, modifier |-> 0]
  /\ h_now = 0
  /\ now = 0
  /\ wd_last_pet = 0
  /\ rebooted = FALSE
  /\ connected = TRUE
  /\ rx = <<>>
  /\ sent = 0
  /\ connect_at = 0
  /\ consumed = <<>>
  /\ frames = <<>>
  /\ emitted = <<>>
  /\ reports = <<>>
  /\ pet_outcome = "none"
  /\ discarded = {}
  /\ absq = <<>>
  /\ last_op = NoOp
  /\ hid_ep_loaded = FALSE
  /\ LogInit
  /\ pc0 = "pet"
  /\ pc1 = "loop"
  /\ core1_initialized = TRUE
  /\ core1_last_seen_us = 0
  /\ pio_ready = TRUE
  /\ wd_enabled = TRUE
  /\ trace = FALSE

HostTypes ==
  /\ Running
  /\ rx = <<>>
  /\ QueueCount(TheQueue) < MaxQueued
  /\ rx' = <<4, 0>>
  /\ UNCHANGED <<logVars, hid_ep_loaded, pc0, pc1, queueVars, core0Locals, sharedVars, pio_ready, key,
                 now, wdVars, connected, connect_at, sent, decodeHist, emitHist, queueHist,
                 trace>>

LoopNext ==
  \/ PetReadNow
  \/ PetDecide
  \/ DrainCheckPop
  \/ DrainPush
  \/ UpdateCdcState
  \/ HandleCdcInput
  \/ Core1Heartbeat
  \/ Core1Poll
  \/ Core1Press
  \/ Core1Release
  \/ HostTypes

LoopSpec ==
  /\ LoopInit
  /\ [][LoopNext]_vars
  /\ WF_vars(Core0)
  /\ WF_vars(Core1)

(***************************************************************************)
(* C15: each iteration of each core's service loop terminates whatever the *)
(* other core does.  What holds: neither core ever waits for the other,    *)
(* each can take its next step in every state; a core0 iteration always    *)
(* completes; core1 is back at the test of the FIFO after each packet.     *)
(***************************************************************************)
C15_NeverBlocked == [](ENABLED Core0 /\ ENABLED Core1)

C15_Core0IterationEnds == []<>(pc0 = "pet")

C15_Core1BackAtTest == []<>(pc1 \in {"loop", "poll"})

MaxLogOps == 4
\* The len arguments of keyemu_log_write.
LogLens == {0, 40, 100}
\* The free space of the CDC TX buffer after the host has read from it.
TxLevels == {100, CFG_TUD_CDC_TX_BUFSIZE}

TheLog ==
  [buf |-> log_buffer, head |-> log_head, tail |-> log_tail,
   dropped |-> log_dropped_bytes, init |-> log_initialized]

log_free_space(head, tail) ==
  IF head >= tail
    THEN KEYEMU_LOG_BUFFER_SIZE - (head - tail) - 1
    ELSE (tail - head) - 1

\* The offset of cell j from cell `from`, going round the ring.
RingOffset(from, j) ==
  (j + KEYEMU_LOG_BUFFER_SIZE - from) % KEYEMU_LOG_BUFFER_SIZE

\* The bytes the ring holds, oldest first.
LogContents(L) ==
  [i \in 1 .. RingOffset(L.tail, L.head) |->
     L.buf[(L.tail + i - 1) % KEYEMU_LOG_BUFFER_SIZE]]

\* for (i = 0; i < len; i++) { log_buffer[log_head] = data[i]; log_head =
\* (log_head + 1) % KEYEMU_LOG_BUFFER_SIZE; } as one update of the ring.
LogStore(L, data, len) ==
  [L EXCEPT
     !.buf = [j \in {(L.head + i) % KEYEMU_LOG_BUFFER_SIZE : i \in 0 .. len - 1}
                |-> data[RingOffset(L.head, j) + 1]] @@ L.buf,
     !.head = (L.head + len) % KEYEMU_LOG_BUFFER_SIZE]

\* A keyemu_log_write that stores all of data, whatever the free space.
keyemu_log_write_unclipped(L, data) ==
  IF Len(data) = 0 \/ ~L.init
    THEN L
    ELSE CHOOSE r \in {LogStore(L, data, n) : n \in {Len(data)}} : TRUE

\* keyemu_log_write(data, len), the whole body under the spin lock.  n and
\* free_space are bound as values before the ring is updated.
keyemu_log_write(L, data) ==
  IF Len(data) = 0 \/ ~L.init
    THEN L
    ELSE CHOOSE r \in
           {IF n > free_space
              THEN LogStore([L EXCEPT !.dropped = @ + (n - free_space)],
                            data, free_space)
              ELSE LogStore(L, data, n) :
            n \in {Len(data)},
            free_space \in {log_free_space(L.head, L.tail)}} : TRUE

\* log_pop_chunk: while (log_tail != log_head && count < max_len).
RECURSIVE log_pop_loop(_, _, _)
log_pop_loop(L, out, max_len) ==
  IF L.tail # L.head /\ Len(out) < max_len
    THEN log_pop_loop([L EXCEPT !.tail = (@ + 1) % KEYEMU_LOG_BUFFER_SIZE],
                      Append(out, L.buf[L.tail]), max_len)
    ELSE [L |-> L, out |-> out]

log_pop_chunk(L, max_len) ==
  CHOOSE r \in {log_pop_loop(L, <<>>, max_len)} : TRUE

log_cdc_ready == log_initialized /\ connected

\* A chunk size that ignores what the sink can take.
log_chunk_max_fixed(available) == LOG_CHUNK_LEN

\* log_flush_available_chunks: max_len = sizeof(chunk), cut to available.
log_chunk_max(available) == Min(LOG_CHUNK_LEN, available)

Digits(n) ==
  IF n < 10 THEN 1 ELSE IF n < 100 THEN 2 ELSE IF n < 1000 THEN 3
  ELSE IF n < 10000 THEN 4 ELSE IF n < 100000 THEN 5 ELSE 6

\* log_emit_overflow_warning: the length snprintf returns, cut to the buffer.
overflow_len(dropped) ==
  Min(OVERFLOW_TEXT_LEN + Digits(dropped), OVERFLOW_MSG_SIZE - 1)

\* keyemu_log_init()
LogInitCall ==
  /\ ~log_initialized
  /\ log_initialized' = TRUE
  /\ UNCHANGED <<log_buffer, log_head, log_tail, log_dropped_bytes, flush_pc,
                 flush_dropped, tx_avail, tx_out, log_in, log_ops>>
  /\ UNCHANGED <<programVars, hid_ep_loaded>>

\* keyemu_log_write(data, len) called on either core.
LogWrite ==
  /\ log_ops < MaxLogOps
  /\ \E len \in LogLens :
       LET data == [i \in 1 .. len |-> log_in + i]
           r == keyemu_log_write(TheLog, data)
       IN  /\ log_buffer' = r.buf
           /\ log_head' = r.head
           /\ log_dropped_bytes' = r.dropped
           /\ log_in' = log_in + len
  /\ log_ops' = log_ops + 1
  /\ UNCHANGED <<log_tail, log_initialized, flush_pc, flush_dropped, tx_avail,
                 tx_out>>
  /\ UNCHANGED <<programVars, hid_ep_loaded>>

\* core0_service calls keyemu_log_flush().
FlushCall ==
  /\ flush_pc = "idle"
  /\ flush_pc' = "test"
  /\ UNCHANGED <<log_buffer, log_head, log_tail, log_dropped_bytes,
                 log_initialized, flush_dropped, tx_avail, tx_out, log_in,
                 log_ops>>
  /\ UNCHANGED <<programVars, hid_ep_loaded>>

\* if (!log_cdc_ready()) return; dropped = log_get_dropped_bytes();
FlushTest ==
  /\ flush_pc = "test"
  /\ IF ~log_cdc_ready
       THEN /\ flush_pc' = "idle"
            /\ UNCHANGED <<flush_dropped, tx_out>>
       ELSE /\ flush_pc' = "chunks"
            /\ flush_dropped' = log_dropped_bytes
            /\ tx_out' = <<>>
  /\ UNCHANGED <<log_buffer, log_head, log_tail, log_dropped_bytes,
                 log_initialized, tx_avail, log_in, log_ops>>
  /\ UNCHANGED <<programVars, hid_ep_loaded>>

\* One turn of the loop of log_flush_available_chunks.
FlushChunk ==
  /\ flush_pc = "chunks"
  /\ LET available == tx_avail
         r == log_pop_chunk(TheLog, log_chunk_max(available))
         count == Len(r.out)
     IN  IF available = 0 \/ count = 0
           THEN /\ flush_pc' = "warn"
                /\ UNCHANGED <<log_tail, tx_avail, tx_out>>
           ELSE /\ log_tail' = r.L.tail
                /\ tx_out' = Append(tx_out, [kind |-> "data", bytes |-> r.out])
                /\ tx_avail' = IF count < tx_avail THEN tx_avail - count ELSE 0
                /\ flush_pc' = "chunks"
  /\ UNCHANGED <<log_buffer, log_head, log_dropped_bytes, log_initialized,
                 flush_dropped, log_in, log_ops>>
  /\ UNCHANGED <<programVars, hid_ep_loaded>>

\* A warning that leaves log_dropped_bytes as it is.
FlushWarn_keepcount ==
  /\ flush_pc = "warn"
  /\ IF flush_dropped # 0 /\ tx_avail >= overflow_len(flush_dropped)
       THEN /\ tx_out' = Append(tx_out, [kind |-> "warn",
                                         dropped |-> flush_dropped])
            /\ tx_avail' = tx_avail - overflow_len(flush_dropped)
       ELSE UNCHANGED <<tx_out, tx_avail>>
  /\ flush_pc' = "idle"
  /\ flush_dropped' = 0
  /\ UNCHANGED <<log_buffer, log_head, log_tail, log_initialized, log_in,
                 log_ops, log_dropped_bytes>>
  /\ UNCHANGED <<programVars, hid_ep_loaded>>

\* A warning that prints the counter as it is when the warning is written.
FlushWarn_reread ==
  /\ flush_pc = "warn"
  /\ IF flush_dropped # 0 /\ tx_avail >= overflow_len(log_dropped_bytes)
       THEN /\ tx_out' = Append(tx_out, [kind |-> "warn",
                                         dropped |-> log_dropped_bytes])
            /\ tx_avail' = tx_avail - overflow_len(log_dropped_bytes)
            /\ log_dropped_bytes' = 0
       ELSE UNCHANGED <<tx_out, tx_avail, log_dropped_bytes>>
  /\ flush_pc' = "idle"
  /\ flush_dropped' = 0
  /\ UNCHANGED <<log_buffer, log_head, log_tail, log_initialized, log_in,
                 log_ops>>
  /\ UNCHANGED <<programVars, hid_ep_loaded>>

\* if (!log_emit_overflow_warning(dropped)) return; tud_cdc_write_flush();
FlushWarn ==
  /\ flush_pc = "warn"
  /\ IF flush_dropped # 0 /\ tx_avail >= overflow_len(flush_dropped)
       THEN /\ tx_out' = Append(tx_out, [kind |-> "warn",
                                         dropped |-> flush_dropped])
            /\ tx_avail' = tx_avail - overflow_len(flush_dropped)
            /\ log_dropped_bytes' = 0
       ELSE UNCHANGED <<tx_out, tx_avail, log_dropped_bytes>>
  /\ flush_pc' = "idle"
  /\ flush_dropped' = 0
  /\ UNCHANGED <<log_buffer, log_head, log_tail, log_initialized, log_in,
                 log_ops>>
  /\ UNCHANGED <<programVars, hid_ep_loaded>>

\* tud_task() between two flushes: the host has read from the CDC TX buffer.
SinkDrains ==
  /\ flush_pc = "idle"
  /\ log_ops < MaxLogOps
  /\ \E a \in TxLevels : a > tx_avail /\ tx_avail' = a
  /\ log_ops' = log_ops + 1
  /\ UNCHANGED <<log_buffer, log_head, log_tail, log_dropped_bytes,
                 log_initialized, flush_pc, flush_dropped, tx_out, log_in>>
  /\ UNCHANGED <<programVars, hid_ep_loaded>>

LogNext ==
  \/ LogInitCall
  \/ LogWrite
  \/ FlushCall
  \/ FlushTest
  \/ FlushChunk
  \/ FlushWarn
  \/ SinkDrains
  \/ HostConnect
  \/ HostDisconnect

\* The program with its log ring as at boot, or later in its life: holding
\* the last LogHeld bytes written, from cell LogHeldFrom on round the end of
\* the ring; or, after a write lost LogLost bytes on the full ring and
\* flushes took all but the last LogLeft bytes while the sink had no room
\* for the warning.
LogHeld == 8150
LogHeldFrom == 8000
LogLost == 59
LogLeft == 120

LogStart ==
  /\ pc0 = "wait"
  /\ pc1 = "boot"
  /\ key_queue = [i \in 0 .. PUSBKB_QUEUE_LEN - 1 |-> 0]
  /\ key_queue_head = 0
  /\ key_queue_tail = 0
  /\ cdc_rx_state = [was_connected |-> FALSE, have_keycode |-> FALSE,
                     pending_keycode |-> 0, dropped_queue |-> 0,
                     last_rx_time |-> 0, last_rx_time_valid |-> FALSE]
  /\ drain_packed = 0
  /\ fifo = <<>>
  /\ core1_initialized = FALSE
  /\ core1_last_seen_us = 0
  /\ pio_ready = FALSE
  /\ key = [keycode |-> 0, modifier |-> 0]
  /\ h_now = 0
  /\ now = 0
  /\ wd_enabled = FALSE
  /\ wd_last_pet = 0
  /\ rebooted = FALSE
  /\ connected = FALSE
  /\ rx = <<>>
  /\ sent = 0
  /\ connect_at = 0
  /\ consumed = <<>>
  /\ frames = <<>>
  /\ emitted = <<>>
  /\ reports = <<>>
  /\ pet_outcome = "none"
  /\ discarded = {}
  /\ absq = <<>>
  /\ last_op = NoOp
  /\ trace = TRUE
  /\ hid_ep_loaded = FALSE
  /\ flush_pc = "idle"
  /\ flush_dropped = 0
  /\ tx_out = <<>>
  /\ log_ops = 0
  /\ \/ /\ log_initialized = FALSE
        /\ log_buffer = <<>>
        /\ log_head = 0
        /\ log_tail = 0
        /\ log_in = 0
        /\ log_dropped_bytes = 0
        /\ tx_avail = CFG_TUD_CDC_TX_BUFSIZE
     \/ /\ log_initialized = TRUE
        /\ log_buffer = [j \in {(LogHeldFrom + i) % KEYEMU_LOG_BUFFER_SIZE :
                                   i \in 0 .. LogHeld - 1} |->
                           RingOffset(LogHeldFrom, j) + 1]
        /\ log_head = (LogHeldFrom + LogHeld) % KEYEMU_LOG_BUFFER_SIZE
        /\ log_tail = LogHeldFrom
        /\ log_in = LogHeld
        /\ log_dropped_bytes = 0
        /\ tx_avail = 0
     \/ /\ log_initialized = TRUE
        /\ log_buffer = [j \in {(LogHeldFrom + i) % KEYEMU_LOG_BUFFER_SIZE :
                                   i \in 0 .. KEYEMU_LOG_BUFFER_SIZE - 2} |->
                           RingOffset(LogHeldFrom, j) + 1]
        /\ log_head = (LogHeldFrom + KEYEMU_LOG_BUFFER_SIZE - 1)
                        % KEYEMU_LOG_BUFFER_SIZE
        /\ log_tail = (LogHeldFrom + KEYEMU_LOG_BUFFER_SIZE - 1 - LogLeft)
                        % KEYEMU_LOG_BUFFER_SIZE
        /\ log_in = KEYEMU_LOG_BUFFER_SIZE - 1 + LogLost
        /\ log_dropped_bytes = LogLost
        /\ tx_avail = 0

LogSpec == LogStart /\ [][LogNext]_vars

(***************************************************************************)
(* C16: keyemu_log_write with len bytes and free space F.  If len > F it   *)
(* stores the first F bytes, in order, after the bytes already buffered,   *)
(* which it leaves as they are, and adds len - F to log_dropped_bytes; if  *)
(* len <= F it stores all of them and leaves the counter.  The ring never  *)
(* holds more than KEYEMU_LOG_BUFFER_SIZE - 1 bytes.                       *)
(***************************************************************************)
WriteStep == log_ops' = log_ops + 1 /\ log_in' # log_in /\ log_initialized

C16_Write ==
  WriteStep =>
    LET len == log_in' - log_in
        F == log_free_space(log_head, log_tail)
        stored == IF len > F THEN F ELSE len
        written == {(log_head + i) % KEYEMU_LOG_BUFFER_SIZE :
                      i \in 0 .. stored - 1}
    IN  /\ \A i \in 0 .. stored - 1 :
             log_buffer'[(log_head + i) % KEYEMU_LOG_BUFFER_SIZE]
               = log_in + i + 1
        /\ \A j \in written : RingOffset(log_tail, j) >= RingOffset(log_tail, log_head)
        /\ log_buffer' = [j \in written |-> log_buffer'[j]] @@ log_buffer
        /\ log_head' = (log_head + stored) % KEYEMU_LOG_BUFFER_SIZE
        /\ log_tail' = log_tail
        /\ RingOffset(log_tail, log_head') = RingOffset(log_tail, log_head) + stored
        /\ log_dropped_bytes' = log_dropped_bytes + (len - stored)

C16_Held == RingOffset(log_tail, log_head) <= KEYEMU_LOG_BUFFER_SIZE - 1

C16_WriteNeverOverruns ==
  [](log_free_space(log_head, log_tail) >= 0) /\ [][C16_Write /\ C16_Held']_vars

\* A write found less room than it needed in a ring that held bytes and had
\* room for some: part was stored and the ring is full.
C16_Witness ==
  /\ log_dropped_bytes > 0
  /\ log_dropped_bytes < 40
  /\ log_free_space(log_head, log_tail) = 0
  /\ log_head < log_tail

(***************************************************************************)
(* C17: keyemu_log_flush changes nothing when the sink is not ready (the   *)
(* log not initialized or the CDC port not connected).  When it is ready,  *)
(* each chunk popped is no longer than the space the sink reported, and    *)
(* the bytes removed from the ring are the bytes written to the sink, in   *)
(* the order they were buffered.                                           *)
(***************************************************************************)
C17_NotReady ==
  (flush_pc = "test" /\ flush_pc' # "test" /\ ~log_cdc_ready) =>
    /\ flush_pc' = "idle"
    /\ UNCHANGED <<log_buffer, log_head, log_tail, log_dropped_bytes,
                   log_initialized, tx_avail, tx_out>>

C17_Chunk ==
  log_tail' # log_tail =>
    LET n == RingOffset(log_tail, log_tail')
    IN  /\ flush_pc = "chunks"
        /\ n <= tx_avail
        /\ n <= LOG_CHUNK_LEN
        /\ n <= RingOffset(log_tail, log_head)
        /\ tx_out' = Append(tx_out,
             [kind |-> "data",
              bytes |-> [i \in 1 .. n |->
                 log_buffer[(log_tail + i - 1) % KEYEMU_LOG_BUFFER_SIZE]]])
        /\ tx_avail' = tx_avail - n
        /\ UNCHANGED <<log_buffer, log_head, log_dropped_bytes>>

RECURSIVE TxBytes(_)
TxBytes(items) ==
  IF items = <<>> THEN <<>>
  ELSE (IF Head(items).kind = "data" THEN Head(items).bytes ELSE <<>>)
       \o TxBytes(Tail(items))

\* The bytes one flush has written so far are in the order they were offered.
C17_InOrder ==
  \A b \in {TxBytes(tx_out)} :
    \A i \in 1 .. Len(b) - 1 : b[i] < b[i + 1]

C17_FlushMovesWhatFits == []C17_InOrder /\ [][C17_NotReady /\ C17_Chunk]_vars

\* A flush took a full chunk and then a shorter one, cut to the room the sink
\* had left, and stopped with bytes still in the ring.
C17_Witness ==
  /\ flush_pc = "warn"
  /\ Len(tx_out) = 2
  /\ Len(tx_out[1].bytes) = LOG_CHUNK_LEN
  /\ Len(tx_out[2].bytes) < LOG_CHUNK_LEN
  /\ tx_avail = 0
  /\ log_head # log_tail

(***************************************************************************)
(* C18: with log_dropped_bytes > 0 and the sink ready, keyemu_log_flush    *)
(* emits the overflow warning once for that overflow and clears the        *)
(* counter.  What holds: the warning is the last thing a flush writes,     *)
(* after the chunks it drained; it is written when the sink has room for   *)
(* it after those chunks and carries the count read when the flush began;  *)
(* the counter is cleared by that step and by no other.                    *)
(***************************************************************************)
HasWarning(items) == \E i \in 1 .. Len(items) : items[i].kind = "warn"

WarnStep == Len(tx_out') = Len(tx_out) + 1 /\ tx_out'[Len(tx_out')].kind = "warn"

C18_Warn ==
  WarnStep =>
    /\ flush_pc = "warn" /\ flush_pc' = "idle"
    /\ flush_dropped > 0
    /\ tx_out'[Len(tx_out')].dropped = flush_dropped
    /\ tx_avail >= overflow_len(flush_dropped)
    /\ tx_avail' = tx_avail - overflow_len(flush_dropped)
    /\ log_dropped_bytes' = 0
    /\ UNCHANGED <<log_buffer, log_head, log_tail>>

C18_WarnWhenRoom ==
  (/\ flush_pc = "warn" /\ flush_pc' = "idle"
   /\ flush_dropped > 0
   /\ tx_avail >= overflow_len(flush_dropped)) => WarnStep

C18_ClearedOnlyByWarning ==
  log_dropped_bytes' < log_dropped_bytes => WarnStep

C18_WarningIsLast ==
  \A i \in 1 .. Len(tx_out) : tx_out[i].kind = "warn" => i = Len(tx_out)

C18_WarningAfterChunks ==
  /\ []C18_WarningIsLast
  /\ [][C18_Warn /\ C18_WarnWhenRoom /\ C18_ClearedOnlyByWarning]_vars

\* C18 as stated: the warning comes before any buffered content is drained
\* in that flush, so a flush that began with a non-zero count pops nothing
\* from the ring until it has written the warning.
C18_AsClaimed ==
  [][log_tail' # log_tail => (flush_dropped = 0 \/ HasWarning(tx_out))]_vars

\* A flush that began with dropped bytes to report has drained the ring and
\* then written the warning, which cleared the counter.
C18_Witness ==
  /\ flush_pc = "idle"
  /\ Len(tx_out) >= 2
  /\ tx_out[1].kind = "data"
  /\ tx_out[Len(tx_out)].kind = "warn"
  /\ tx_out[Len(tx_out)].dropped = LogLost
  /\ log_dropped_bytes = 0
  /\ log_head = log_tail

(***************************************************************************)
(* C19: the wait of core0 for the handshake of core1 is bounded and not    *)
(* fatal.  Once 200 ms have passed core0 can go on without core1; going on *)
(* it enables the watchdog and enters its loop.  While core1_initialized   *)
(* is false every health check refreshes the watchdog.  A handshake that   *)
(* comes late writes the heartbeat at that time, restarts nothing, and     *)
(* from then on the refresh depends on the age of the heartbeat alone.     *)
(***************************************************************************)
C19_WaitBounded ==
  (Running /\ pc0 = "wait" /\ now > Units(CORE1_INIT_WAIT_US)) =>
    ENABLED MainWaitCore1

C19_LeaveWait ==
  (pc0 = "wait" /\ pc0' # "wait") =>
    /\ core1_initialized \/ now > Units(CORE1_INIT_WAIT_US)
    /\ wd_enabled' /\ wd_last_pet' = now
    /\ pc0' = "pet"
    /\ rebooted' = rebooted

C19_HealthyBeforeHandshake ==
  (pc0 = "pet" /\ pc0' # "pet" /\ ~core1_initialized) =>
    /\ pet_outcome' = "pet"
    /\ wd_last_pet' = now

C19_Handshake ==
  (pc1 = "hs2" /\ pc1' # "hs2") =>
    /\ core1_initialized
    /\ core1_last_seen_us' = T32(now)
    /\ core1_is_healthy(T32(now), core1_last_seen_us')
    /\ UNCHANGED <<rebooted, wd_enabled, wd_last_pet, pc0>>

C19_MonitoredAfter ==
  (pc0 = "pet2" /\ pc0' # "pet2") =>
    /\ core1_initialized
    /\ pet_outcome' = "pet" <=> core1_is_healthy(h_now, core1_last_seen_us)
    /\ pet_outcome' = "pet" => wd_last_pet' = now

LinkInit ==
  /\ key_queue = [i \in 0 .. PUSBKB_QUEUE_LEN - 1 |->
                    IF i = 0 THEN PackKey(4, 0) ELSE 0]
  /\ key_queue_head = 1
  /\ key_queue_tail = 0
  /\ cdc_rx_state = [was_connected |-> TRUE, have_keycode |-> FALSE,
                     pending_keycode |-> 0, dropped_queue |-> 0,
                     last_rx_time |-> 0, last_rx_time_valid |-> TRUE]
  /\ drain_packed = 0
  /\ fifo = <<PackKey(4, 0)>>
  /\ key = [keycode |-> 0, modifier |-> 0]
  /\ h_now = 0
  /\ now = 0
  /\ wd_last_pet = 0
  /\ rebooted = FALSE
  /\ connected = TRUE
  /\ rx = <<>>
  /\ sent = 0
  /\ connect_at = 0
  /\ consumed = <<>>
  /\ frames = <<>>
  /\ emitted = <<>>
  /\ reports = <<>>
  /\ pet_outcome = "none"
  /\ discarded = {}
  /\ absq = <<PackKey(4, 0)>>
  /\ last_op = [op |-> "push", ok |-> TRUE, val |-> PackKey(4, 0),
                virgin |-> FALSE]
  /\ hid_ep_loaded = FALSE
  /\ LogInit
  /\ pc0 = "pet"
  /\ pc1 = "loop"
  /\ core1_initialized = TRUE
  /\ core1_last_seen_us = 0
  /\ pio_ready = TRUE
  /\ wd_enabled = TRUE
  /\ trace = TRUE

\* The host writes the next byte of its text through the open port.
HostSends ==
  /\ connected
  /\ HostWriteFixed

LinkNext ==
  \/ PetReadNow
  \/ PetDecide
  \/ DrainCheckPop
  \/ DrainPush
  \/ UpdateCdcState
  \/ HandleCdcInput
  \/ Core1Heartbeat
  \/ Core1Poll
  \/ Core1Press
  \/ Core1Release
  \/ HostSends
  \/ HostConnect
  \/ HostDisconnect

LinkSpec == LinkInit /\ [][LinkNext]_vars

(***************************************************************************)
(* C20: the call of core0_update_cdc_state that finds the port closed      *)
(* after having seen it open forgets the pending keycode and the time of   *)
(* the last read, produces no packet and leaves key_queue as it was; the   *)
(* keycode it forgot is never paired with the byte that follows it.  A     *)
(* byte that core0_handle_cdc_input reads after that call is kept, so the  *)
(* first byte written after the port is opened again can still become the  *)
(* modifier of a byte written before it was closed.                        *)
(***************************************************************************)
DisconnectSeen ==
  /\ pc0 = "update"
  /\ pc0' = "handle"
  /\ cdc_rx_state.was_connected
  /\ ~connected

C20_Discard ==
  DisconnectSeen =>
    /\ ~cdc_rx_state'.have_keycode
    /\ ~cdc_rx_state'.last_rx_time_valid
    /\ ~cdc_rx_state'.was_connected
    /\ queueVars' = queueVars
    /\ absq' = absq
    /\ fifo' = fifo
    /\ frames' = frames
    /\ emitted' = emitted
    /\ cdc_rx_state.have_keycode =>
         [at |-> Len(consumed), why |-> "disconnect"] \in discarded'

\* A keycode forgotten at the disconnect is not the keycode of any packet.
C20_Forgotten ==
  \A d \in discarded :
    d.why = "disconnect" =>
      \A i \in 1 .. Len(frames) : frames[i].at # d.at + 1

Core0KeptUp ==
  /\ pc0 = "handle"
  /\ wd_last_pet = now \/ pet_outcome = "skip"
  /\ fifo # <<>>

\* pio_send_key: the press report and sleep_ms(2), on the clock.
Core1PressSleep ==
  /\ Running
  /\ pc1 = "press"
  /\ pio_ready
  /\ Core0KeptUp
  /\ hid_ep_loaded' = TRUE
  /\ pc1' = "release"
  /\ now' = now + Units(PIO_SEND_SLEEP_US)
  /\ UNCHANGED <<logVars, pc0, queueVars, core0Locals, sharedVars, pio_ready,
                 key, wdVars, hostVars, decodeHist, emitHist, queueHist,
                 trace>>

\* pio_send_key: the release report and sleep_ms(2), on the clock.
Core1ReleaseSleep ==
  /\ Running
  /\ pc1 = "release"
  /\ Core0KeptUp
  /\ hid_ep_loaded' = TRUE
  /\ pc1' = "poll"
  /\ now' = now + Units(PIO_SEND_SLEEP_US)
  /\ UNCHANGED <<logVars, pc0, queueVars, core0Locals, sharedVars, pio_ready,
                 key, wdVars, hostVars, decodeHist, emitHist, queueHist,
                 trace>>

BusyNext ==
  \/ PetReadNow
  \/ PetDecide
  \/ DrainCheckPop
  \/ DrainPush
  \/ UpdateCdcState
  \/ HandleCdcInput
  \/ Core1Heartbeat
  \/ Core1Poll
  \/ Core1PressSleep
  \/ Core1ReleaseSleep
  \/ HostTypes
  \/ WatchdogReset

BusySpec == LoopInit /\ [][BusyNext]_vars

(***************************************************************************)
(* C21: a core1 that keeps emitting reports never causes a watchdog reset. *)
(* In BusySpec core1 never stops: every 2 ms it writes a report.  The      *)
(* heartbeat is written only at the top of the outer loop, which core1     *)
(* does not reach while the FIFO keeps giving packets, so the property     *)
(* fails.                                                                  *)
(***************************************************************************)
C21_BusyCore1NotReset == ~rebooted

(***************************************************************************)
(* The health check around the wraparound of time_us_32().  The device has *)
(* been idle for almost 2^32 us, one clock unit short of the wraparound:   *)
(* both cores are in their loops, no host types, and the clock advances by *)
(* single units (64 us) through the wraparound and by long steps (5 s).    *)
(***************************************************************************)
MaxUnitTicks == 2
MaxWrapLong == 2
WrapStart == TIMER_WRAP_UNITS - 1

WrapInit ==
  /\ key_queue = [i \in 0 .. PUSBKB_QUEUE_LEN - 1 |-> 0]
  /\ key_queue_head = 0
  /\ key_queue_tail = 0
  /\ cdc_rx_state = [was_connected |-> TRUE, have_keycode |-> FALSE,
                     pending_keycode |-> 0, dropped_queue |-> 0,
                     last_rx_time |-> 0, last_rx_time_valid |-> FALSE]
  /\ drain_packed = 0
  /\ fifo = <<>>
  /\ key = [keycode |-> 0, modifier |-> 0]
  /\ h_now = 0
  /\ now = WrapStart
  /\ wd_last_pet = WrapStart
  /\ rebooted = FALSE
  /\ connected = TRUE
  /\ rx = <<>>
  /\ sent = 0
  /\ connect_at = 0
  /\ consumed = <<>>
  /\ frames = <<>>
  /\ emitted = <<>>
  /\ reports = <<>>
  /\ pet_outcome = "pet"
  /\ discarded = {}
  /\ absq = <<>>
  /\ last_op = NoOp
  /\ hid_ep_loaded = FALSE
  /\ LogInit
  /\ pc0 = "pet"
  /\ pc1 = "loop"
  /\ core1_initialized = TRUE
  /\ core1_last_seen_us = T32(WrapStart)
  /\ pio_ready = TRUE
  /\ wd_enabled = TRUE
  /\ trace = FALSE

TickUnit ==
  /\ (now - WrapStart) % LongStep < MaxUnitTicks
  /\ TickBy(1)

TickWrapLong ==
  /\ (now - WrapStart) \div LongStep < MaxWrapLong
  /\ TickBy(LongStep)

WrapNext ==
  \/ PetReadNow
  \/ PetDecide
  \/ DrainCheckPop
  \/ UpdateCdcState
  \/ HandleCdcInput
  \/ Core1Heartbeat
  \/ Core1Poll
  \/ TickUnit
  \/ TickWrapLong
  \/ WatchdogReset

WrapSpec == WrapInit /\ [][WrapNext]_vars

(***************************************************************************)
(* C22: core1_is_healthy compares the timer value core0 read first with    *)
(* the heartbeat it read second.  A heartbeat written at or before the     *)
(* first read and less than 5 s before it is found healthy, also when the  *)
(* timer wrapped between the two; one written after the first read, at a   *)
(* later timer value, gives a difference near 2^32 and is found unhealthy, *)
(* so that call skips the watchdog refresh.                                *)
(***************************************************************************)
\* The instant a timer value stands for, in the window of WrapSpec.
AbsOf(t32) ==
  IF t32 < TIMER_WRAP_UNITS \div 2 THEN t32 + TIMER_WRAP_UNITS ELSE t32

C22_ClockInWindow ==
  /\ AbsOf(time_us_32) = now
  /\ AbsOf(core1_last_seen_us) <= now
  /\ pc0 = "pet2" => AbsOf(h_now) <= now

DecideStep == pc0 = "pet2" /\ pc0' = "drain"

\* How long before core0's read of the timer the heartbeat was written.
SeenBeforeRead == AbsOf(h_now) - AbsOf(core1_last_seen_us)

C22_Decide ==
  DecideStep =>
    /\ (0 <= SeenBeforeRead /\
        SeenBeforeRead < Units(CORE1_HEALTH_TIMEOUT_US)) =>
         (pet_outcome' = "pet" /\ wd_last_pet' = now)
    /\ SeenBeforeRead < 0 =>
         (pet_outcome' = "skip" /\ wd_last_pet' = wd_last_pet)
    /\ SeenBeforeRead >= Units(CORE1_HEALTH_TIMEOUT_US) =>
         (pet_outcome' = "skip" /\ wd_last_pet' = wd_last_pet)

C22_HealthyWhenSeenBeforeRead == []C22_ClockInWindow /\ [][C22_Decide]_vars

\* As stated: a heartbeat less than 5 s old is always found healthy.
C22_AsClaimed ==
  [][(DecideStep /\
      now - AbsOf(core1_last_seen_us) < Units(CORE1_HEALTH_TIMEOUT_US)) =>
       pet_outcome' = "pet"]_vars

\* core0 read the timer after the wraparound, the heartbeat was written
\* before it, and the check finds core1 healthy.
C22_Witness ==
  /\ pc0 = "pet2"
  /\ h_now < TIMER_WRAP_UNITS \div 2
  /\ core1_last_seen_us > TIMER_WRAP_UNITS \div 2
  /\ now = AbsOf(h_now)
  /\ core1_is_healthy(h_now, core1_last_seen_us)

(***************************************************************************)
(* C23: a call of core0_handle_cdc_input reads at most min(64, 2*free)     *)
(* bytes, or min(64, 2*free + 1) with a keycode pending and free >= 1.     *)
(* Without a pending keycode the packets it completes fit the free space   *)
(* and no push fails.  With one, the extra byte completes one packet more: *)
(* up to free + 1 packets, so one push can fail and dropped_queue goes up  *)
(* by one.                                                                 *)
(***************************************************************************)
HandleStep == pc0 = "handle" /\ pc0' = "pet"

BytesRead == Len(rx) - Len(rx')

FreeAtEntry == key_queue_free_space(TheQueue)

C23_ReadLimit ==
  BytesRead <= Min(CDC_READ_BUF_LEN,
                   IF cdc_rx_state.have_keycode
                     THEN IF FreeAtEntry = 0 THEN 0 ELSE 2 * FreeAtEntry + 1
                     ELSE 2 * FreeAtEntry)

C23_Handle ==
  HandleStep =>
    /\ C23_ReadLimit
    /\ ~cdc_rx_state.have_keycode =>
         /\ C14_Decoded <= FreeAtEntry
         /\ cdc_rx_state'.dropped_queue = cdc_rx_state.dropped_queue
    /\ cdc_rx_state.have_keycode =>
         /\ C14_Decoded <= FreeAtEntry + 1
         /\ cdc_rx_state'.dropped_queue \in
              {cdc_rx_state.dropped_queue, cdc_rx_state.dropped_queue + 1}
    /\ cdc_rx_state'.dropped_queue > cdc_rx_state.dropped_queue =>
         /\ C14_Decoded = FreeAtEntry + 1
         /\ key_queue_free_space(TheQueue') = 0

C23_ReadFitsButOne == [][C23_Handle]_vars

\* As stated: no push of core0_handle_cdc_input ever fails.
C23_AsClaimed == cdc_rx_state.dropped_queue = 0

\* The call that found one free slot and a pending keycode has read three
\* bytes, queued one packet and dropped the other.
C23_Witness ==
  /\ pc0 = "pet"
  /\ cdc_rx_state.dropped_queue = 1
  /\ ~cdc_rx_state.have_keycode
  /\ sent = 4
  /\ rx = <<>>
  /\ key_queue_free_space(TheQueue) = 0
  /\ key_queue_tail = 0

(***************************************************************************)
(* C24: no packet is lost between key_queue and the inter-core FIFO.       *)
(* core0 holds a popped packet only while the FIFO has room, core1 only    *)
(* takes words out, so the push that follows the pop puts that packet at   *)
(* the end of the FIFO and the branch that drops it is never taken.        *)
(***************************************************************************)
C24_RoomWhileHolding ==
  pc0 = "push" => (Len(fifo) < FifoDepth /\ drain_packed # 0)

FifoPushStep == pc0 = "push" /\ pc0' # "push"

C24_Push ==
  FifoPushStep =>
    /\ fifo' = Append(fifo, drain_packed)
    /\ pc0' = "drain"
    /\ InPipeline' = InPipeline

\* Only core0's push makes the FIFO longer; every other step leaves it or
\* takes its first word.
C24_OnlyCore0Writes ==
  ~FifoPushStep => (fifo' = fifo \/ fifo' = Tail(fifo))

C24_PushAlwaysSucceeds ==
  []C24_RoomWhileHolding /\ [][C24_Push /\ C24_OnlyCore0Writes]_vars

\* core0 has filled the FIFO again while core1 is inside pio_send_key with
\* the packet before.
C24_Witness ==
  /\ pc0 = "drain"
  /\ Len(fifo) = FifoDepth
  /\ pc1 = "release"
  /\ key_queue_tail = FifoDepth + 1
  /\ ~key_queue_is_empty(TheQueue)

(***************************************************************************)
(* A host that writes the two bytes of each frame together in time: the    *)
(* clock does not advance while the host is between the keycode and the    *)
(* modifier of a frame.  core0 may still be late.                          *)
(***************************************************************************)
TickBetweenFrames ==
  /\ sent % 2 = 0
  /\ TickShort

TimelyNext ==
  \/ Core0
  \/ Core1
  \/ HostWrite
  \/ TickBetweenFrames

TimelySpec == Init /\ [][TimelyNext]_vars

(***************************************************************************)
(* C25: the timeout runs from core0's last read to its next call of        *)
(* core0_update_cdc_state, not between the arrivals of the two bytes.  A   *)
(* pending keycode is discarded by the timeout only when core0 has not     *)
(* read for more than 200 ms, and as long as none was discarded every      *)
(* packet pairs the two bytes of one frame.  When core0 is late the        *)
(* keycode is discarded with its modifier waiting in the receive buffer,   *)
(* and the modifier is then taken for a keycode.                           *)
(***************************************************************************)
TimeoutDiscardStep ==
  /\ pc0 = "update"
  /\ pc0' = "handle"
  /\ cdc_rx_state.have_keycode
  /\ ~cdc_rx_state'.have_keycode

C25_Discard ==
  TimeoutDiscardStep =>
    /\ PendingFor > Units(CDC_PARTIAL_TIMEOUT_US)
    /\ [at |-> Len(consumed), why |-> "timeout"] \in discarded'

C25_AlignedUntilDiscard ==
  discarded = {} =>
    /\ \A i \in 1 .. Len(frames) :
         /\ frames[i].at % 2 = 0
         /\ frames[i].k = consumed[frames[i].at - 1]
         /\ frames[i].m = consumed[frames[i].at]
    /\ cdc_rx_state.have_keycode <=> Len(consumed) % 2 = 1

C25_DiscardOnlyWhenCore0Late ==
  []C25_AlignedUntilDiscard /\ [][C25_Discard]_vars

\* As stated: with the two bytes of every frame written together, no
\* keycode is discarded and every packet is one frame.
C25_AsClaimed ==
  /\ \A x \in discarded : x.why # "timeout"
  /\ \A i \in 1 .. Len(frames) : frames[i].at % 2 = 0

\* The keycode of the first frame was discarded while its modifier was in
\* the receive buffer, and that modifier became the keycode of a packet.
C25_Witness ==
  /\ [at |-> 1, why |-> "timeout"] \in discarded
  /\ sent = MaxBytes
  /\ \E i \in 1 .. Len(frames) :
       /\ frames[i].at = 3
       /\ frames[i].k = consumed[2]
       /\ frames[i].m = consumed[3]

(***************************************************************************)
(* A writer on the other core during a flush.  The ring is as after an     *)
(* overflow that has been flushed down to its last bytes; while core0 is   *)
(* inside keyemu_log_flush the other core writes more than the ring holds. *)
(***************************************************************************)
RaceStart == LogStart /\ log_dropped_bytes = LogLost

\* keyemu_log_write(data, len) with len above the size of the ring, called
\* on the other core while keyemu_log_flush runs.
LogWriteLong ==
  /\ log_ops < MaxLogOps
  /\ flush_pc \in {"chunks", "warn"}
  /\ LET len == KEYEMU_LOG_BUFFER_SIZE + LogLeft
         data == [i \in 1 .. len |-> log_in + i]
         r == keyemu_log_write(TheLog, data)
     IN  /\ log_buffer' = r.buf
         /\ log_head' = r.head
         /\ log_dropped_bytes' = r.dropped
         /\ log_in' = log_in + len
  /\ log_ops' = log_ops + 1
  /\ UNCHANGED <<log_tail, log_initialized, flush_pc, flush_dropped, tx_avail,
                 tx_out>>
  /\ UNCHANGED <<programVars, hid_ep_loaded>>

RaceNext ==
  \/ LogWriteLong
  \/ FlushCall
  \/ FlushTest
  \/ FlushChunk
  \/ FlushWarn
  \/ SinkDrains
  \/ HostConnect
  \/ HostDisconnect

RaceSpec == RaceStart /\ [][RaceNext]_vars

(***************************************************************************)
(* C26: log_dropped_bytes is changed only under the spin lock, by a write  *)
(* that adds what it dropped and by the flush that resets it after the     *)
(* warning; head is moved only by a write and tail only by a pop.  The     *)
(* warning prints the count read at the start of the flush and the reset   *)
(* clears the counter as it is then: bytes dropped by the other core in    *)
(* between are in the counter when it is cleared and in no warning.        *)
(***************************************************************************)
C26_CounterChange ==
  log_dropped_bytes' # log_dropped_bytes =>
    \/ /\ WriteStep
       /\ log_dropped_bytes' - log_dropped_bytes =
            (log_in' - log_in) - RingOffset(log_head, log_head')
       /\ log_free_space(log_head', log_tail') = 0
    \/ /\ WarnStep
       /\ log_dropped_bytes' = 0

C26_Reset ==
  WarnStep =>
    /\ tx_out'[Len(tx_out')].dropped = flush_dropped
    /\ flush_dropped <= log_dropped_bytes
    /\ log_dropped_bytes' = 0

C26_ReadNotAbove ==
  flush_pc \in {"chunks", "warn"} => flush_dropped <= log_dropped_bytes

C26_Locked ==
  /\ log_head' # log_head => (WriteStep /\ log_tail' = log_tail)
  /\ log_tail' # log_tail => (flush_pc = "chunks" /\ log_head' = log_head)

C26_CountReadIsReported ==
  []C26_ReadNotAbove /\ [][C26_CounterChange /\ C26_Reset /\ C26_Locked]_vars

\* As stated: what the reset clears is what the warning printed.
C26_AsClaimed == [][WarnStep => flush_dropped = log_dropped_bytes]_vars

\* A flush has printed the count it read and cleared the counter after the
\* other core filled the ring and dropped more.
C26_Witness ==
  /\ flush_pc = "idle"
  /\ HasWarning(tx_out)
  /\ tx_out[Len(tx_out)].dropped = LogLost
  /\ log_dropped_bytes = 0
  /\ log_free_space(log_head, log_tail) = 0
  /\ log_in > 2 * KEYEMU_LOG_BUFFER_SIZE

=============================================================================
